---- MODULE Spec2Model ----
(***************************************************************************)
(* Verification model of the applicant-tracking front end: resume upload   *)
(* and text extraction (JobDetails), application submission                *)
(* (CandidateDashboard, JobDetails), resume structuring                    *)
(* (ApplicationInsights) and the recruiter review screens.                 *)
(*                                                                         *)
(* Text is a sequence of UTF-16 code units (numbers), files are sequences  *)
(* of bytes.                                                               *)
(***************************************************************************)
EXTENDS Integers, Sequences, FiniteSets, Bags, TLC

VARIABLES
    \* JobDetails page: formData.resumeText, the handleResumeUpload run in
    \* progress, and the last toast of the page
    formResumeText, upload, jdToast,
    \* files the user can pick in a file dialog
    fileChoices,
    \* JobDetails page: job, loading, the run of handleSubmit, the session
    jd,
    \* CandidateDashboard pages (one per browser tab): jobs, applications,
    \* loading, activeTab, the run of handleApply, the last toast, the session
    dash,
    \* backend: the rows of the applications table, in insertion order
    applications,
    \* ApplicationInsights: the resume of the application shown
    \* (data.resume) and the structuredResume state
    appResume, structuredResume,
    \* backend: the rows of the parsed_resumes table, in insertion order
    parsedResumes,
    \* the recruiter's tab: the page it shows, and the state of the
    \* ApplicationReview, ReviewApplications and ApplicationInsights
    \* components with their requests in flight
    page, ar, ra, ins,
    \* the last toast shown to the recruiter
    hrToast,
    \* the scores the AI endpoints answer with
    endpointScores,
    \* Login page: email, password, loading, the run of handleLogin, the
    \* last toast and the route the tab is at
    login

uploadVars == <<formResumeText, upload, jdToast>>
structureVars == <<appResume, structuredResume>>
\* what the candidate pages leave alone
reviewVars == <<parsedResumes, page, ar, ra, ins, hrToast, endpointScores>>
recruiterVars == <<structureVars, reviewVars, login>>
\* what the recruiter pages leave alone
candidateVars == <<uploadVars, fileChoices, jd, dash, login>>
\* what the Login page leaves alone
pagesVars == <<uploadVars, fileChoices, jd, dash, applications,
               structureVars, reviewVars>>
vars == <<formResumeText, upload, jdToast, fileChoices, jd, dash,
          applications, appResume, structuredResume, parsedResumes, page,
          ar, ra, ins, hrToast, endpointScores, login>>

----------------------------------------------------------------------------
(* Bounds *)

\* longest text (in code units) of a file offered to handleResumeUpload
MaxFileLen == 2

\* most lines of a resume text given to structureResume
MaxLines == 3

\* CandidateDashboard pages open at the same time
NumDash == 1

\* open jobs of the jobs table
NumJobs == 1

\* candidates with an account
NumUsers == 1

\* applications in the table when the recruiter starts reviewing
NumApps == 1

\* most requests a recruiter page has in flight at the same time
MaxInFlight == 2

\* most rows the parsed_resumes table holds
MaxParsed == 1

\* most chunks the local model's response is read in
MaxReads == 2

\* most lines a chunk of the response holds
MaxChunkLines == 2

\* applications of the job whose ReviewApplications page is opened directly
BatchApps == 2

\* most rows of the applications table: no submission is started beyond it
MaxRows == 2
MaxRouteChanges == 1
MaxSent == 2

----------------------------------------------------------------------------
(* Text helpers *)

\* ECMAScript WhiteSpace and LineTerminator code units: what
\* String.prototype.trim strips and what the regex class \s matches
WhiteSpace ==
    {9, 10, 11, 12, 13, 32, 160, 5760, 8232, 8233, 8239, 8287, 12288, 65279}
        \cup (8192..8202)

IsSpace(c) == c \in WhiteSpace

RECURSIVE TrimStart(_)
TrimStart(s) ==
    IF s = <<>> THEN <<>>
    ELSE IF IsSpace(Head(s)) THEN TrimStart(Tail(s)) ELSE s

RECURSIVE TrimEnd(_)
TrimEnd(s) ==
    IF s = <<>> THEN <<>>
    ELSE IF IsSpace(s[Len(s)]) THEN TrimEnd(SubSeq(s, 1, Len(s) - 1)) ELSE s

\* String.prototype.trim
Trim(s) == TrimEnd(TrimStart(s))

\* all sequences over alphabet of length at most n
SeqsUpTo(alphabet, n) == UNION {[1..k -> alphabet] : k \in 0..n}

----------------------------------------------------------------------------
(* UTF-8: how a text becomes the bytes of a file and how FileReader        *)
(* .readAsText / Blob.text turn the bytes back into text                   *)

\* UTF-8 encoding of one code unit of the Basic Multilingual Plane
Utf8EncodeChar(c) ==
    IF c < 128 THEN <<c>>
    ELSE IF c < 2048 THEN <<192 + (c \div 64), 128 + (c % 64)>>
    ELSE <<224 + (c \div 4096), 128 + ((c \div 64) % 64), 128 + (c % 64)>>

RECURSIVE Utf8Encode(_)
Utf8Encode(s) ==
    IF s = <<>> THEN <<>> ELSE Utf8EncodeChar(Head(s)) \o Utf8Encode(Tail(s))

IsCont(b) == b \in 128..191

\* decoding without byte-order-mark handling; a malformed byte gives U+FFFD
RECURSIVE Utf8DecodeBody(_)
Utf8DecodeBody(b) ==
    IF b = <<>> THEN <<>>
    ELSE IF b[1] < 128 THEN <<b[1]>> \o Utf8DecodeBody(Tail(b))
    ELSE IF b[1] \in 194..223 /\ Len(b) >= 2 /\ IsCont(b[2])
        THEN <<(b[1] - 192) * 64 + (b[2] - 128)>>
                \o Utf8DecodeBody(SubSeq(b, 3, Len(b)))
    ELSE IF b[1] \in 224..239 /\ Len(b) >= 3 /\ IsCont(b[2]) /\ IsCont(b[3])
            /\ (b[1] - 224) * 4096 + (b[2] - 128) * 64 + (b[3] - 128) >= 2048
        THEN <<(b[1] - 224) * 4096 + (b[2] - 128) * 64 + (b[3] - 128)>>
                \o Utf8DecodeBody(SubSeq(b, 4, Len(b)))
    ELSE <<65533>> \o Utf8DecodeBody(Tail(b))

\* the "UTF-8 decode" of the Encoding standard: a leading byte-order mark
\* (EF BB BF) is dropped before decoding
Utf8Decode(b) ==
    IF Len(b) >= 3 /\ SubSeq(b, 1, 3) = <<239, 187, 191>>
    THEN Utf8DecodeBody(SubSeq(b, 4, Len(b)))
    ELSE Utf8DecodeBody(b)

----------------------------------------------------------------------------
(* Files *)

PlainType == "text/plain"
DocxType == "application/vnd.openxmlformats-officedocument.wordprocessingml.document"
DocType == "application/msword"
PdfType == "application/pdf"

FileTypes == {PlainType, DocxType, DocType, PdfType}

\* code units used in the files of the model: "a", space, U+FEFF
FileChars == {97, 32, 65279}

FileTexts == SeqsUpTo(FileChars, MaxFileLen)

\* a file: its declared media type and its bytes; text is the string whose
\* UTF-8 encoding the bytes are (for a word-processor document: the raw text
\* of the document, whose container format is not modelled)
File(type, text) == [type |-> type, text |-> text, bytes |-> Utf8Encode(text)]

AllFiles == {File(t, s) : t \in FileTypes, s \in FileTexts}

\* FileReader.readAsText(file), delivered to reader.onload
ReadAsText(file) == Utf8Decode(file.bytes)

\* mammoth.extractRawText({arrayBuffer}): the raw text of the document, or
\* an exception for bytes that are no word-processor document
MammothError == "mammoth: cannot read document"
MammothResults(file) ==
    {[ok |-> TRUE, value |-> file.text], [ok |-> FALSE, value |-> <<>>]}

----------------------------------------------------------------------------
(* Sessions, jobs and the applications table                               *)

Users == 1..NumUsers
\* supabase.auth.getUser() of a browser without a session: user is null
NoUser == 0

Jobs == 1..NumJobs
NoJob == 0

\* an outcome of a backend request: success, or the error it reports
BackendOk == "ok"
ForeignKeyError == "insert or update violates foreign key constraint"
BackendError == "backend error"

\* a row of the applications table as the two submission forms insert it;
\* column is the column that holds the resume (resume_text or resume)
ApplicationRow(job, user, column, text) ==
    [job_id |-> job, candidate_id |-> user, column |-> column,
     text |-> text, status |-> "pending", match_score |-> <<>>,
     ai_review |-> <<>>]

\* select ... .eq('job_id', job).eq('candidate_id', user)
RowsOf(job, user) ==
    {i \in 1..Len(applications) :
        applications[i].job_id = job /\ applications[i].candidate_id = user}

\* handlers that have started and may still insert a row
InsertsPending ==
    (IF jd.pc # "idle" THEN 1 ELSE 0)
        + Cardinality({d \in DOMAIN dash : dash[d].pc # "idle"})

\* the user starts another submission only while the table has room
RoomForRow == Len(applications) + InsertsPending < MaxRows

----------------------------------------------------------------------------
(* JobDetails: the page and handleSubmit *)

\* the state of the page when it mounts: loading, fetchJobDetails started
JdMounted(route, user) ==
    [mounted |-> TRUE, route |-> route, user |-> user, job |-> NoJob,
     loading |-> TRUE, fetching |-> TRUE, hasFile |-> FALSE, pc |-> "idle"]

\* the tab shows another page
JdUnmounted(user) ==
    [mounted |-> FALSE, route |-> NoJob, user |-> user, job |-> NoJob,
     loading |-> FALSE, fetching |-> FALSE, hasFile |-> FALSE, pc |-> "idle"]

\* the form is rendered: neither the loading nor the "Job not found" view
FormShown == jd.mounted /\ ~jd.loading /\ jd.job # NoJob

JdToast(kind, message) == <<kind, message>>

\* fetchJobDetails returns: the job is set or the error is notified, and
\* loading is reset
fetchJobDetails ==
    /\ jd.mounted /\ jd.fetching
    /\ \E res \in {BackendOk, BackendError} :
        IF res = BackendOk
        THEN /\ jd' = [jd EXCEPT !.job = jd.route, !.loading = FALSE,
                                 !.fetching = FALSE]
             /\ UNCHANGED jdToast
        ELSE /\ jd' = [jd EXCEPT !.loading = FALSE, !.fetching = FALSE]
             /\ jdToast' = JdToast("error", res)
    /\ UNCHANGED <<formResumeText, upload, fileChoices, dash, applications,
                   recruiterVars>>

----------------------------------------------------------------------------
(* JobDetails.handleResumeUpload *)

\* toasts: the kind of the notification and the parts of its message
NoToast == <<"none">>
UploadOkToast == <<"success", "Resume processed successfully!">>
ExtractionFailed == "Could not extract text from the file"
ErrorToast(message) == <<"error", "Error processing resume: ", message>>

UploadIdle == [pc |-> "idle"]

\* mutant of ExtractedIsBlank: the test without the trim, !resumeText
ExtractedIsBlankNoTrim(resumeText) == resumeText = <<>>

\* the blank test of the handler: !resumeText.trim()
ExtractedIsBlank(resumeText) == Trim(resumeText) = <<>>

\* the file input's change event: the handler starts and awaits the read
UploadStart(file) ==
    /\ FormShown
    /\ upload.pc # "reading"
    /\ upload' = [pc |-> "reading", file |-> file]
    /\ jd' = [jd EXCEPT !.hasFile = TRUE]
    /\ UNCHANGED <<formResumeText, jdToast, fileChoices, dash,
                   applications, recruiterVars>>

\* mutant of UploadStore: the text is stored trimmed
UploadStoreTrimmed(file, resumeText) ==
    IF ExtractedIsBlank(resumeText)
    THEN /\ jdToast' = ErrorToast(ExtractionFailed)
         /\ upload' = [pc |-> "done", file |-> file, outcome |-> "failed",
                       extracted |-> resumeText]
         /\ UNCHANGED formResumeText
    ELSE /\ formResumeText' = Trim(resumeText)
         /\ jdToast' = UploadOkToast
         /\ upload' = [pc |-> "done", file |-> file, outcome |-> "stored",
                       extracted |-> resumeText]

\* the read has produced resumeText: blank text throws, other text is stored
UploadStore(file, resumeText) ==
    IF ExtractedIsBlank(resumeText)
    THEN /\ jdToast' = ErrorToast(ExtractionFailed)
         /\ upload' = [pc |-> "done", file |-> file, outcome |-> "failed",
                       extracted |-> resumeText]
         /\ UNCHANGED formResumeText
    ELSE /\ formResumeText' = resumeText
         /\ jdToast' = UploadOkToast
         /\ upload' = [pc |-> "done", file |-> file, outcome |-> "stored",
                       extracted |-> resumeText]

\* text/plain branch: FileReader.readAsText
UploadFinishPlain ==
    /\ upload.pc = "reading"
    /\ upload.file.type = PlainType
    /\ UploadStore(upload.file, ReadAsText(upload.file))
    /\ UNCHANGED <<fileChoices, jd, dash, applications, recruiterVars>>

\* word-processor branch: mammoth.extractRawText, which may throw
UploadFinishDoc ==
    /\ upload.pc = "reading"
    /\ upload.file.type \in {DocxType, DocType}
    /\ \E r \in MammothResults(upload.file) :
        IF r.ok
        THEN UploadStore(upload.file, r.value)
        ELSE /\ jdToast' = ErrorToast(MammothError)
             /\ upload' = [pc |-> "done", file |-> upload.file,
                           outcome |-> "threw"]
             /\ UNCHANGED formResumeText
    /\ UNCHANGED <<fileChoices, jd, dash, applications, recruiterVars>>

\* any other type: readAsText again (its result is always a string)
UploadFinishOther ==
    /\ upload.pc = "reading"
    /\ upload.file.type \notin {PlainType, DocxType, DocType}
    /\ UploadStore(upload.file, ReadAsText(upload.file))
    /\ UNCHANGED <<fileChoices, jd, dash, applications, recruiterVars>>

\* the user picks a file in the form's file input
UploadChoose == \E file \in fileChoices : UploadStart(file)

----------------------------------------------------------------------------
(* CandidateDashboard: the page and handleApply *)

\* dashboard 0 is the one the JobDetails tab shows after navigate('/cdashboard')
Dash == 0..NumDash

NoFile == [type |-> "", text |-> <<>>, bytes |-> <<>>]

\* the state of the page when it mounts: loading, the lists empty,
\* fetchJobsAndApplications started
DashMounted(user) ==
    [mounted |-> TRUE, user |-> user, loading |-> TRUE, fetching |-> TRUE,
     tab |-> "jobs", jobs |-> {}, apps |-> <<>>, pc |-> "idle",
     job |-> NoJob, file |-> NoFile, toast |-> NoToast]

DashUnmounted(user) ==
    [mounted |-> FALSE, user |-> user, loading |-> FALSE, fetching |-> FALSE,
     tab |-> "jobs", jobs |-> {}, apps |-> <<>>, pc |-> "idle",
     job |-> NoJob, file |-> NoFile, toast |-> NoToast]

RECURSIVE SelectRows(_, _)
SelectRows(rows, user) ==
    IF rows = <<>> THEN <<>>
    ELSE (IF Head(rows).candidate_id = user THEN <<Head(rows)>> ELSE <<>>)
            \o SelectRows(Tail(rows), user)

\* the state fetchJobsAndApplications leaves: both lists set, or the error
\* notified; loading reset either way. The applications select has no
\* filter: row-level security shows a candidate their own rows
Fetched(d, res) ==
    IF res = BackendOk
    THEN [d EXCEPT !.jobs = Jobs, !.apps = SelectRows(applications, d.user),
                   !.loading = FALSE]
    ELSE [d EXCEPT !.toast = <<"error", res>>, !.loading = FALSE]

\* the fetchJobsAndApplications started by useEffect returns
DashFetchDone(d) ==
    /\ dash[d].mounted /\ dash[d].fetching
    /\ \E res \in {BackendOk, BackendError} :
        dash' = [dash EXCEPT ![d] = [Fetched(dash[d], res) EXCEPT !.fetching = FALSE]]
    /\ UNCHANGED <<uploadVars, fileChoices, jd, applications, recruiterVars>>

\* a click on one of the two tabs
DashSetTab(d) ==
    /\ dash[d].mounted
    /\ \E tab \in {"jobs", "applications"} :
        /\ tab # dash[d].tab
        /\ dash' = [dash EXCEPT ![d].tab = tab]
    /\ UNCHANGED <<uploadVars, fileChoices, jd, applications, recruiterVars>>

\* the Apply Now button of a job is rendered
ApplyShown(d, job) ==
    /\ dash[d].mounted
    /\ ~dash[d].loading
    /\ dash[d].tab = "jobs"
    /\ job \in dash[d].jobs

\* handleApply(job): the file dialog closes without a file
ApplyNoFile(d) ==
    /\ \E job \in Jobs : ApplyShown(d, job)
    /\ dash[d].pc = "idle"
    /\ dash' = [dash EXCEPT ![d].toast = <<"error", "Please select a file">>]
    /\ UNCHANGED <<uploadVars, fileChoices, jd, applications, recruiterVars>>

\* handleApply(job): a file is chosen; setLoading(true), getUser is awaited
ApplyChoose(d) ==
    /\ dash[d].pc = "idle"
    /\ RoomForRow
    /\ \E job \in Jobs, file \in fileChoices :
        /\ ApplyShown(d, job)
        /\ dash' = [dash EXCEPT ![d].loading = TRUE, ![d].pc = "getUser",
                                ![d].job = job, ![d].file = file]
    /\ UNCHANGED <<uploadVars, fileChoices, jd, applications, recruiterVars>>

\* what catch and finally of handleApply leave
ApplyFailed(d, message) ==
    [d EXCEPT !.toast = <<"error", message>>, !.loading = FALSE,
              !.pc = "idle"]

\* getUser returns: without a user the handler throws
ApplyGetUser(d) ==
    /\ dash[d].pc = "getUser"
    /\ dash' = [dash EXCEPT ![d] =
                    IF dash[d].user = NoUser
                    THEN ApplyFailed(dash[d], "Please login to apply")
                    ELSE [dash[d] EXCEPT !.pc = "check"]]
    /\ UNCHANGED <<uploadVars, fileChoices, jd, applications, recruiterVars>>

\* existingApplication of handleApply: .single() gives the row when exactly
\* one row matches, and null otherwise (no row, several rows, or a failed
\* request; the error is not read)
ExistingApplication(job, user, res) ==
    res = BackendOk /\ Cardinality(RowsOf(job, user)) = 1

\* the existence check returns: an existing application ends the handler
ApplyCheck(d) ==
    /\ dash[d].pc = "check"
    /\ \E res \in {BackendOk, BackendError} :
        dash' = [dash EXCEPT ![d] =
                    IF ExistingApplication(dash[d].job, dash[d].user, res)
                    THEN [dash[d] EXCEPT
                            !.toast = <<"error",
                                        "You have already applied for this job">>,
                            !.loading = FALSE, !.pc = "idle"]
                    ELSE [dash[d] EXCEPT !.pc = "insert"]]
    /\ UNCHANGED <<uploadVars, fileChoices, jd, applications, recruiterVars>>

\* resumeText = await file.text(); the insert returns: an error throws, a
\* success is notified and fetchJobsAndApplications is awaited
ApplyInsert(d) ==
    /\ dash[d].pc = "insert"
    /\ \E res \in {BackendOk, BackendError} :
        IF res = BackendOk
        THEN /\ applications' = Append(applications,
                    ApplicationRow(dash[d].job, dash[d].user, "resume_text",
                                   Utf8Decode(dash[d].file.bytes)))
             /\ dash' = [dash EXCEPT
                    ![d].toast = <<"success",
                                   "Application submitted successfully!">>,
                    ![d].pc = "refetch"]
        ELSE /\ dash' = [dash EXCEPT ![d] = ApplyFailed(dash[d], res)]
             /\ UNCHANGED applications
    /\ UNCHANGED <<uploadVars, fileChoices, jd, recruiterVars>>

\* the awaited fetchJobsAndApplications returns (it catches its own error);
\* setActiveTab('applications'), then finally
ApplyRefetch(d) ==
    /\ dash[d].pc = "refetch"
    /\ \E res \in {BackendOk, BackendError} :
        dash' = [dash EXCEPT ![d] =
                    [Fetched(dash[d], res) EXCEPT !.tab = "applications",
                                                  !.loading = FALSE,
                                                  !.pc = "idle"]]
    /\ UNCHANGED <<uploadVars, fileChoices, jd, applications, recruiterVars>>

----------------------------------------------------------------------------
(* JobDetails.handleSubmit *)

\* the submit button is pressed and the browser lets the form submit (the
\* file input is `required`); without a resume text the handler returns,
\* else setLoading(true) and getUser is awaited
SubmitClick ==
    /\ FormShown
    /\ jd.hasFile
    /\ jd.pc = "idle"
    /\ IF formResumeText = <<>>
       THEN /\ jdToast' = JdToast("error", "Please upload your resume")
            /\ UNCHANGED jd
       ELSE /\ RoomForRow
            /\ jd' = [jd EXCEPT !.loading = TRUE, !.hasFile = FALSE,
                                !.pc = "getUser"]
            /\ UNCHANGED jdToast
    /\ UNCHANGED <<formResumeText, upload, fileChoices, dash, applications,
                   recruiterVars>>

\* getUser returns: without a user the handler throws
SubmitGetUser ==
    /\ jd.pc = "getUser"
    /\ IF jd.user = NoUser
       THEN /\ jdToast' = JdToast("error", "Please login to apply")
            /\ jd' = [jd EXCEPT !.loading = FALSE, !.pc = "idle"]
       ELSE /\ jd' = [jd EXCEPT !.pc = "insert"]
            /\ UNCHANGED jdToast
    /\ UNCHANGED <<formResumeText, upload, fileChoices, dash, applications,
                   recruiterVars>>

\* the message handleSubmit throws for an insert error
SubmitErrorMessage(res) ==
    IF res = ForeignKeyError
    THEN "Unable to submit application. Please ensure you are logged in as a candidate."
    ELSE res

\* the insert returns: an error throws; after a success the handler
\* navigates to /cdashboard, so JobDetails unmounts (its form state and a
\* read still in progress go with it) and the tab mounts CandidateDashboard
SubmitInsert ==
    /\ jd.pc = "insert"
    /\ \E res \in {BackendOk, ForeignKeyError, BackendError} :
        IF res = BackendOk
        THEN /\ applications' = Append(applications,
                    ApplicationRow(jd.job, jd.user, "resume", formResumeText))
             /\ jdToast' = JdToast("success",
                    "Application submitted successfully! You can track your application status in the dashboard.")
             /\ jd' = JdUnmounted(jd.user)
             /\ formResumeText' = <<>>
             /\ upload' = UploadIdle
             /\ dash' = [dash EXCEPT ![0] = DashMounted(jd.user)]
        ELSE /\ jdToast' = JdToast("error", SubmitErrorMessage(res))
             /\ jd' = [jd EXCEPT !.loading = FALSE, !.pc = "idle"]
             /\ UNCHANGED <<formResumeText, upload, dash, applications>>
    /\ UNCHANGED <<fileChoices, recruiterVars>>

\* the candidate opens the job page again in the tab whose dashboard is idle
JdOpen ==
    /\ ~jd.mounted
    /\ dash[0].mounted /\ dash[0].pc = "idle" /\ ~dash[0].fetching
    /\ \E route \in Jobs : jd' = JdMounted(route, jd.user)
    /\ dash' = [dash EXCEPT ![0] = DashUnmounted(jd.user)]
    /\ UNCHANGED <<uploadVars, fileChoices, applications, recruiterVars>>

----------------------------------------------------------------------------
(* ApplicationInsights.structureResume: the regular expressions            *)

\* the words of the headings in the patterns
Word ==
    [
     \* "Summary"
     Summary |->
        <<83, 117, 109, 109, 97, 114, 121>>,
     \* "Profile"
     Profile |->
        <<80, 114, 111, 102, 105, 108, 101>>,
     \* "About"
     About |->
        <<65, 98, 111, 117, 116>>,
     \* "Objective"
     Objective |->
        <<79, 98, 106, 101, 99, 116, 105, 118, 101>>,
     \* "Skills"
     Skills |->
        <<83, 107, 105, 108, 108, 115>>,
     \* "Expertise"
     Expertise |->
        <<69, 120, 112, 101, 114, 116, 105, 115, 101>>,
     \* "Competencies"
     Competencies |->
        <<67, 111, 109, 112, 101, 116, 101, 110, 99, 105, 101,
        115>>,
     \* "Technical Skills"
     TechnicalSkills |->
        <<84, 101, 99, 104, 110, 105, 99, 97, 108, 32, 83, 107, 105,
        108, 108, 115>>,
     \* "Experience"
     Experience |->
        <<69, 120, 112, 101, 114, 105, 101, 110, 99, 101>>,
     \* "Work Experience"
     WorkExperience |->
        <<87, 111, 114, 107, 32, 69, 120, 112, 101, 114, 105, 101,
        110, 99, 101>>,
     \* "Employment"
     Employment |->
        <<69, 109, 112, 108, 111, 121, 109, 101, 110, 116>>,
     \* "Education"
     Education |->
        <<69, 100, 117, 99, 97, 116, 105, 111, 110>>,
     \* "Academic Background"
     AcademicBackground |->
        <<65, 99, 97, 100, 101, 109, 105, 99, 32, 66, 97, 99, 107,
        103, 114, 111, 117, 110, 100>>,
     \* "Qualifications"
     Qualifications |->
        <<81, 117, 97, 108, 105, 102, 105, 99, 97, 116, 105, 111,
        110, 115>>,
     \* "Work"
     Work |->
        <<87, 111, 114, 107>>,
     \* "Certifications"
     Certifications |->
        <<67, 101, 114, 116, 105, 102, 105, 99, 97, 116, 105, 111,
        110, 115>>,
     \* "Contact"
     Contact |->
        <<67, 111, 110, 116, 97, 99, 116>>
    ]

\* the heading alternatives of each pattern, in the order the pattern lists
\* them, and the headings its lookahead accepts
SummaryHeads == <<Word.Summary, Word.Profile, Word.About, Word.Objective>>
SummaryStops == {Word.Skills, Word.Experience, Word.Education, Word.Work,
                 Word.Employment, Word.Certifications, Word.Contact}
SkillsHeads == <<Word.Skills, Word.Expertise, Word.Competencies,
                 Word.TechnicalSkills>>
SkillsStops == {Word.Experience, Word.Education, Word.Work, Word.Employment,
                Word.Certifications, Word.Contact}
ExperienceHeads == <<Word.Experience, Word.WorkExperience, Word.Employment>>
ExperienceStops == {Word.Education, Word.Skills, Word.Certifications,
                    Word.Contact}
EducationHeads == <<Word.Education, Word.AcademicBackground,
                    Word.Qualifications>>
EducationStops == {Word.Experience, Word.Skills, Word.Certifications,
                   Word.Contact}

\* the month abbreviations of the entry-splitting pattern
Months == {
    <<74, 97, 110>>, <<70, 101, 98>>, <<77, 97, 114>>, <<65, 112, 114>>,
    <<77, 97, 121>>, <<74, 117, 110>>, <<74, 117, 108>>, <<65, 117, 103>>,
    <<83, 101, 112>>, <<79, 99, 116>>, <<78, 111, 118>>, <<68, 101, 99>>}

\* the separators of the skills split, /[,â€¢|\n]/ as the source has it:
\* "," "â" "€" "¢" "|" and newline
SkillSeparators == {44, 226, 8364, 162, 124, 10}

\* the i flag: code units are compared after canonicalisation (upper case)
Canon(c) == IF c \in 97..122 THEN c - 32 ELSE c

IsDigit(c) == c \in 48..57

\* the literal w matches t at position p, ignoring case
LitAt(t, p, w) ==
    /\ p + Len(w) - 1 <= Len(t)
    /\ \A i \in 1..Len(w) : Canon(t[p + i - 1]) = Canon(w[i])

AnyLitAt(t, p, words) == \E w \in words : LitAt(t, p, w)

\* t[p..q-1] is made of white space only
AllSpace(t, p, q) == \A i \in p..(q - 1) : IsSpace(t[i])

Min(S) == CHOOSE x \in S : \A y \in S : x <= y
Max(S) == CHOOSE x \in S : \A y \in S : x >= y

\* the lookahead (?=\n\s*(?:stops|$)) holds at position e; there is no m
\* flag, so $ is the end of the text only
StopAhead(t, e, stops) ==
    /\ e <= Len(t)
    /\ t[e] = 10
    /\ \E q \in (e + 1)..(Len(t) + 1) :
        /\ AllSpace(t, e + 1, q)
        /\ (AnyLitAt(t, q, stops) \/ q = Len(t) + 1)

\* the number of code units of [:\s] from position p on
RECURSIVE ColonSpaceRun(_, _)
ColonSpaceRun(t, p) ==
    IF p <= Len(t) /\ (t[p] = 58 \/ IsSpace(t[p]))
    THEN 1 + ColonSpaceRun(t, p + 1) ELSE 0

NoMatch == [found |-> FALSE]

\* the rest of the pattern after its heading, from position p:
\* [:\s]* greedy (longest first), (.*?) lazy (shortest first), then the
\* lookahead; ahead is the set of positions where the lookahead holds
TailMatch(t, p, ahead) ==
    LET ks == {k \in 0..ColonSpaceRun(t, p) : \E e \in ahead : e >= p + k}
    IN  IF ks = {} THEN NoMatch
        ELSE LET c == p + Max(ks)
                 e == Min({x \in ahead : x >= c})
             IN  [found |-> TRUE, capture |-> SubSeq(t, c, e - 1)]

\* the pattern tried at start position s: the first heading alternative, in
\* order, with which the whole pattern matches
RECURSIVE MatchAt(_, _, _, _, _)
MatchAt(t, s, heads, i, ahead) ==
    IF i > Len(heads) THEN NoMatch
    ELSE IF LitAt(t, s, heads[i])
            /\ TailMatch(t, s + Len(heads[i]), ahead).found
         THEN TailMatch(t, s + Len(heads[i]), ahead)
         ELSE MatchAt(t, s, heads, i + 1, ahead)

\* resumeText.match(/(?:heads)[:\s]*(.*?)(?=\n\s*(?:stops|$))/is): the match
\* at the leftmost start position that has one
SectionMatch(t, heads, stops) ==
    LET ahead == {e \in 1..Len(t) : StopAhead(t, e, stops)}
        starts == {s \in 1..Len(t) : MatchAt(t, s, heads, 1, ahead).found}
    IN  IF ahead = {} \/ starts = {} THEN NoMatch
        ELSE MatchAt(t, Min(starts), heads, 1, ahead)

\* `match && match[1]`: there is a match and its capture is not empty
HasCapture(m) == m.found /\ m.capture # <<>>

\* String.prototype.split on a pattern matching one code unit of seps
RECURSIVE SplitOnChars(_, _)
SplitOnChars(t, seps) ==
    IF \A i \in 1..Len(t) : t[i] \notin seps THEN <<t>>
    ELSE LET i == Min({j \in 1..Len(t) : t[j] \in seps})
         IN  <<SubSeq(t, 1, i - 1)>>
                \o SplitOnChars(SubSeq(t, i + 1, Len(t)), seps)

\* the lookahead (?=\d{4}|Jan|...|Dec) of the entry pattern
EntryAhead(t, q) ==
    \/ q + 3 <= Len(t) /\ \A i \in q..(q + 3) : IsDigit(t[i])
    \/ AnyLitAt(t, q, Months)

\* /\n\s*(?=\d{4}|Jan|...|Dec)/i tried at position q: 0 when it does not
\* match, else the position after the match (\s* greedy)
EntryBreakEnd(t, q) ==
    IF q > Len(t) \/ t[q] # 10 THEN 0
    ELSE LET ends == {r \in (q + 1)..(Len(t) + 1) :
                        AllSpace(t, q + 1, r) /\ EntryAhead(t, r)}
         IN  IF ends = {} THEN 0 ELSE Max(ends)

\* String.prototype.split on the entry pattern: p is where the current
\* piece starts, q the position being tried
RECURSIVE SplitEntriesFrom(_, _, _)
SplitEntriesFrom(t, p, q) ==
    IF q > Len(t) THEN <<SubSeq(t, p, Len(t))>>
    ELSE LET e == EntryBreakEnd(t, q)
         IN  IF e = 0 THEN SplitEntriesFrom(t, p, q + 1)
             ELSE <<SubSeq(t, p, q - 1)>> \o SplitEntriesFrom(t, e, e)

SplitEntries(t) == SplitEntriesFrom(t, 1, 1)

RECURSIVE MapTrim(_)
MapTrim(entries) ==
    IF entries = <<>> THEN <<>>
    ELSE <<Trim(Head(entries))>> \o MapTrim(Tail(entries))

\* filter(entry => entry.length > n)
RECURSIVE LongerThan(_, _)
LongerThan(entries, n) ==
    IF entries = <<>> THEN <<>>
    ELSE (IF Len(Head(entries)) > n THEN <<Head(entries)>> ELSE <<>>)
            \o LongerThan(Tail(entries), n)

\* mutant of KeepEntry: entries of exactly 10 code units are kept (>= 10)
KeepEntryFrom10(entries) == LongerThan(entries, 9)

\* .filter(entry => entry.length > 10)
KeepEntry(entries) == LongerThan(entries, 10)

\* .filter(skill => skill.length > 0)
KeepSkill(entries) == LongerThan(entries, 0)

SkillsOf(capture) == KeepSkill(MapTrim(SplitOnChars(capture, SkillSeparators)))

EntriesOf(capture) == KeepEntry(MapTrim(SplitEntries(capture)))

\* a value that may be null or undefined: <<>>, or <<v>>
Absent == <<>>
Some(v) == <<v>>

\* const sections = { summary: 'N/A', ... }
InitialSectionsPlaceholder ==
    [summary |-> <<78, 47, 65>>, skills |-> <<>>, experience |-> <<>>,
     education |-> <<>>, certifications |-> <<>>, contact |-> <<>>,
     rawText |-> Absent]

\* const sections = { summary: '', skills: [], experience: [],
\* education: [], certifications: [], contact: {} }; it has no rawText
InitialSections ==
    [summary |-> <<>>, skills |-> <<>>, experience |-> <<>>,
     education |-> <<>>, certifications |-> <<>>, contact |-> <<>>,
     rawText |-> Absent]

\* the structure the catch block sets: every section empty, and
\* rawText: resumeText
CaughtSections(resumeText) ==
    [InitialSections EXCEPT !.rawText = Some(resumeText)]

\* the sections object structureResume builds: a section is assigned only
\* when its pattern matched with a non-empty capture
Structure(resumeText) ==
    LET summaryMatch == SectionMatch(resumeText, SummaryHeads, SummaryStops)
        skillsMatch == SectionMatch(resumeText, SkillsHeads, SkillsStops)
        experienceMatch ==
            SectionMatch(resumeText, ExperienceHeads, ExperienceStops)
        educationMatch ==
            SectionMatch(resumeText, EducationHeads, EducationStops)
        sections == InitialSections
    IN  [sections EXCEPT
         !.summary = IF HasCapture(summaryMatch)
                     THEN Trim(summaryMatch.capture) ELSE @,
         !.skills = IF HasCapture(skillsMatch)
                    THEN SkillsOf(skillsMatch.capture) ELSE @,
         !.experience = IF HasCapture(experienceMatch)
                        THEN EntriesOf(experienceMatch.capture) ELSE @,
         !.education = IF HasCapture(educationMatch)
                       THEN EntriesOf(educationMatch.capture) ELSE @]

----------------------------------------------------------------------------
(* ApplicationInsights.structureResume: the call                           *)

\* the JavaScript null of a state that holds an object otherwise
Null == [null |-> TRUE]

\* lines of resumes
Line ==
    [
     \* "Skills: Go, Rust, C++"
     Skills |->
        <<83, 107, 105, 108, 108, 115, 58, 32, 71, 111, 44, 32, 82,
        117, 115, 116, 44, 32, 67, 43, 43>>,
     \* "Experience:"
     Experience |->
        <<69, 120, 112, 101, 114, 105, 101, 110, 99, 101, 58>>,
     \* "2020 Engineer at Foo"
     Job |->
        <<50, 48, 50, 48, 32, 69, 110, 103, 105, 110, 101, 101, 114,
        32, 97, 116, 32, 70, 111, 111>>,
     \* "Education:"
     Education |->
        <<69, 100, 117, 99, 97, 116, 105, 111, 110, 58>>,
     \* "2019 B.Sc."
     Degree |->
        <<50, 48, 49, 57, 32, 66, 46, 83, 99, 46>>,
     \* " Jan 2021 Intern, Bar "
     Intern |->
        <<32, 74, 97, 110, 32, 50, 48, 50, 49, 32, 73, 110, 116,
        101, 114, 110, 44, 32, 66, 97, 114, 32>>,
     \* "Summary: Dev"
     Summary |->
        <<83, 117, 109, 109, 97, 114, 121, 58, 32, 68, 101, 118>>
    ]

\* the lines the resume texts of the model are made of
ResumeLines == {Line.Skills, Line.Experience, Line.Job, Line.Education,
                Line.Degree, Line.Intern, Line.Summary}

RECURSIVE JoinLines(_)
JoinLines(lines) ==
    IF Len(lines) = 1 THEN lines[1]
    ELSE lines[1] \o <<10>> \o JoinLines(Tail(lines))

\* resume texts: 1..MaxLines lines joined by newlines, with or without a
\* newline after the last line
ResumeTexts ==
    {JoinLines(lines) \o end :
        lines \in UNION {[1..k -> ResumeLines] : k \in 1..MaxLines},
        end \in {<<>>, <<10>>}}

\* fetchApplication calls structureResume(data.resume) when data.resume is
\* not empty; the function ends in setStructuredResume(sections)
structureResume ==
    /\ appResume # <<>>
    /\ structuredResume' = Structure(appResume)
    /\ UNCHANGED <<appResume, applications, candidateVars, reviewVars>>

----------------------------------------------------------------------------
(* Login: the page and handleLogin                                         *)

\* what the user may type in the fields
Emails == {"hr@example.com", "candidate@example.com"}
Passwords == {"secret", "wrong"}

\* the roles a row of profiles may hold
Roles == {"hr", "candidate", "admin"}

LoginToast(kind, message) == <<kind, message>>

\* the state of the component when it mounts
LoginMounted ==
    [mounted |-> TRUE, email |-> "", password |-> "", loading |-> FALSE,
     pc |-> "idle", userId |-> NoUser, toast |-> NoToast, at |-> "/login"]

\* the tab shows no Login page
LoginUnmounted ==
    [mounted |-> FALSE, email |-> "", password |-> "", loading |-> FALSE,
     pc |-> "idle", userId |-> NoUser, toast |-> NoToast, at |-> "none"]

LoginClosed == login = LoginUnmounted

\* onChange of the email field
setEmail ==
    /\ login.mounted
    /\ \E email \in Emails : login' = [login EXCEPT !.email = email]
    /\ UNCHANGED pagesVars

\* onChange of the password field
setPassword ==
    /\ login.mounted
    /\ \E password \in Passwords :
            login' = [login EXCEPT !.password = password]
    /\ UNCHANGED pagesVars

\* the form is submitted (both fields are required, the button is disabled
\* while loading): handleLogin sets loading and signs in
LoginSubmit ==
    /\ login.mounted
    /\ ~login.loading
    /\ login.email # "" /\ login.password # ""
    /\ login' = [login EXCEPT !.loading = TRUE, !.pc = "signIn"]
    /\ UNCHANGED pagesVars

\* what catch and finally of handleLogin leave
LoginFailed(message) ==
    [login EXCEPT !.loading = FALSE, !.pc = "idle", !.userId = NoUser,
                  !.toast = LoginToast("error", message)]

\* signInWithPassword returns: an error, a user without an id, or a user
LoginSignedIn ==
    /\ login.mounted
    /\ login.pc = "signIn"
    /\ \/ login' = LoginFailed("Invalid login credentials")
       \/ login' = LoginFailed("Authentication failed.")
       \/ \E user \in Users :
            login' = [login EXCEPT !.pc = "profile", !.userId = user]
    /\ UNCHANGED pagesVars

\* the select of the profile returns: an error; or a role, and the tab
\* navigates to the dashboard of the role and notifies the success; a role
\* that is neither hr nor candidate throws
LoginProfile ==
    /\ login.mounted
    /\ login.pc = "profile"
    /\ \/ login' = LoginFailed(BackendError)
       \/ \E role \in Roles :
            login' =
                IF role \in {"hr", "candidate"}
                THEN [LoginUnmounted EXCEPT
                        !.userId = login.userId,
                        !.toast = LoginToast("success", "Login successful!"),
                        !.at = IF role = "hr" THEN "/dashboard"
                               ELSE "/cdashboard"]
                ELSE LoginFailed("Invalid user role")
    /\ UNCHANGED pagesVars

\* the user signs out and the tab is back at the Login page
LoginOpen ==
    /\ ~login.mounted
    /\ login.at \in {"/dashboard", "/cdashboard"}
    /\ login' = LoginMounted
    /\ UNCHANGED pagesVars

----------------------------------------------------------------------------
(* The recruiter's pages: values, tables and services *)

\* the truthiness of a number that may be absent
Truthy(x) == x # Absent /\ x[1] # 0

\* x || y
OrElse(x, y) == IF Truthy(x) THEN x ELSE y

\* the id of an application is the place of its row in the table
NoApp == 0
AppIds == 1..Len(applications)

\* the value of a column of a row: the resume is in one of two columns
ColumnOf(row, column) ==
    IF row.column = column THEN Some(row.text) ELSE Absent

\* the ids of the rows that .eq('job_id', job) selects, in table order
IdsOfJob(job) ==
    SelectSeq([i \in 1..Len(applications) |-> i],
              LAMBDA i : applications[i].job_id = job)

\* the scores the AI endpoints may answer with in one session (none, or a
\* number)
ScoreChoices == {{Absent, Some(85)}, {Some(0), Some(85)}, {Some(85), Some(150)}}

\* analyzeResume of services/aiService: the AIReview object of the hosted
\* endpoint's response, or an exception
AIReviews == {[match_score |-> score] : score \in endpointScores}

\* parseResume of lib/huggingface: the parsed data, or an exception
ParseResults == {Some("parsed_data")}

\* matchResumeWithJD of lib/huggingface: the match result, or an exception
MatchResults == {[score |-> score] : score \in endpointScores}

\* the number of code units of the resume the prompt of analyzeResume
\* holds at most
PrefixLength == 3000

\* String.prototype.substring(0, end)
Substring0(s, end) == SubSeq(s, 1, IF end < Len(s) THEN end ELSE Len(s))

\* ${resumeText}
PromptResumeWhole(resumeText) == resumeText

\* the resume as the prompt of the streaming analyzeResume holds it:
\* ${resumeText.substring(0, 3000)}
PromptResume(resumeText) == Substring0(resumeText, PrefixLength)

\* the resume text a hosted service (analyzeResume of aiService, parseResume
\* and matchResumeWithJD) sends to its endpoint for the argument it is
\* given: a prefix of bounded length, nothing for an undefined argument
ServiceRequest(resume) ==
    IF resume = Absent THEN Absent
    ELSE Some(Substring0(resume[1], PrefixLength))

\* a toast of a recruiter page
HrToast(kind, message, subject) == <<kind, message, subject>>

\* applications.update(fields).eq('id', id): the new rows
StatusUpdated(id, status) ==
    [applications EXCEPT ![id].status = status]

----------------------------------------------------------------------------
(* ApplicationReview: the page, updateApplicationStatus, handleParseResume *)

ParseIdle == [pc |-> "idle", app |-> NoApp, parsed |-> Absent,
              match |-> Absent, resume_text |-> Absent, request |-> Absent]

\* a fetchJobAndApplications that has been started: its selects have not
\* run in the backend yet
ArFetch == [served |-> FALSE, apps |-> <<>>]

\* the state of the component when it mounts: useEffect has started
\* fetchJobAndApplications
ArMounted(route) ==
    [route |-> route, job |-> NoJob, loading |-> TRUE, apps |-> <<>>,
     processing |-> NoApp, fetches |-> SetToBag({ArFetch}),
     updates |-> EmptyBag, parse |-> ParseIdle]

ArUnmounted ==
    [route |-> NoJob, job |-> NoJob, loading |-> FALSE, apps |-> <<>>,
     processing |-> NoApp, fetches |-> EmptyBag, updates |-> EmptyBag,
     parse |-> ParseIdle]

\* parsed_resume:parsed_resumes(*) as the Application interface reads it:
\* the record of the application, absent when it has none
ParsedResumeOf(id) ==
    LET rows == SelectSeq(parsedResumes, LAMBDA row : row.application_id = id)
    IN IF rows = <<>> THEN Absent ELSE Some(rows[1])

\* a row as ApplicationReview holds it
ArApplication(id) ==
    [id |-> id, status |-> applications[id].status,
     resume_text |-> ColumnOf(applications[id], "resume_text"),
     parsed_resume |-> ParsedResumeOf(id)]

\* the list that select(...).eq('job_id', route) returns
ArSelected(route) ==
    LET ids == IdsOfJob(route)
    IN [k \in 1..Len(ids) |-> ArApplication(ids[k])]

\* requests of the page (fetches, status updates, the parse run) in flight
ArInFlight ==
    BagCardinality(ar.fetches) + BagCardinality(ar.updates)
        + (IF ar.parse.pc = "idle" THEN 0 ELSE 1)

\* the list of applications is rendered
ArShown == page = "ApplicationReview" /\ ~ar.loading /\ ar.job # NoJob

\* the Link of HRDashboard to /review/:id (the toasts of the page left
\* have been dismissed)
ArOpen ==
    /\ page = "HRDashboard"
    /\ \E route \in Jobs :
        /\ page' = "ApplicationReview"
        /\ ar' = ArMounted(route)
    /\ hrToast' = NoToast
    /\ UNCHANGED <<candidateVars, applications, structureVars,
                   parsedResumes, ra, ins,
                   endpointScores>>

\* Back to Dashboard, pressed when no request of the page is in flight
ArBack ==
    /\ page = "ApplicationReview"
    /\ ~ar.loading
    /\ ArInFlight = 0
    /\ page' = "HRDashboard"
    /\ ar' = ArUnmounted
    /\ UNCHANGED <<candidateVars, applications, structureVars,
                   parsedResumes, ra, ins, hrToast,
                   endpointScores>>

\* the backend runs the selects of a fetchJobAndApplications: the response
\* carries the rows as they are now
ArFetchServed ==
    /\ page = "ApplicationReview"
    /\ \E fetch \in BagToSet(ar.fetches) :
        /\ ~fetch.served
        /\ ar' = [ar EXCEPT !.fetches =
                    (@ (-) SetToBag({fetch}))
                    (+) SetToBag({[served |-> TRUE,
                                   apps |-> ArSelected(ar.route)]})]
    /\ UNCHANGED <<candidateVars, applications, structureVars,
                   parsedResumes, page, ra, ins, hrToast,
                   endpointScores>>

\* a fetchJobAndApplications returns, in whatever order the responses
\* arrive: the job and the list are set, or the error of the job select or
\* of the applications select is notified; loading is reset either way
ArFetchDone ==
    /\ page = "ApplicationReview"
    /\ \E fetch \in BagToSet(ar.fetches),
          res \in {"ok", "jobError", "appError"} :
        /\ fetch.served
        /\ ar' = [ar EXCEPT
                !.fetches = @ (-) SetToBag({fetch}),
                !.loading = FALSE,
                !.job = IF res = "jobError" THEN @ ELSE ar.route,
                !.apps = IF res = "ok" THEN fetch.apps ELSE @]
        /\ hrToast' = IF res = "ok" THEN hrToast
                      ELSE HrToast("error", BackendError, NoApp)
    /\ UNCHANGED <<candidateVars, applications, structureVars,
                   parsedResumes, page, ra, ins,
                   endpointScores>>

\* the entries of a list of local applications
Entries(apps) == {apps[k] : k \in 1..Len(apps)}

\* a service or request that failed
ServiceError == "service error"

\* Select and Reject of an application are rendered when its status is
\* pending
ArControlsRendered(app) == ArShown /\ app.status = "pending"

\* Select or Reject of an application: updateApplicationStatus sends the
\* update
ArStatusClick ==
    /\ ArInFlight < MaxInFlight
    /\ \E app \in Entries(ar.apps), status \in {"selected", "rejected"} :
        /\ ArControlsRendered(app)
        /\ ar' = [ar EXCEPT !.updates =
                    @ (+) SetToBag({[id |-> app.id, status |-> status]})]
    /\ UNCHANGED <<candidateVars, applications, structureVars,
                   parsedResumes, page, ra, ins, hrToast,
                   endpointScores>>

\* an update of updateApplicationStatus returns: after a success a refresh
\* is started without being awaited and the success is notified; an error
\* is notified
ArUpdateDone ==
    /\ page = "ApplicationReview"
    /\ \E update \in BagToSet(ar.updates), res \in {BackendOk, BackendError} :
        IF res = BackendOk
        THEN /\ applications' = StatusUpdated(update.id, update.status)
             /\ ar' = [ar EXCEPT
                    !.updates = @ (-) SetToBag({update}),
                    !.fetches = @ (+) SetToBag({ArFetch})]
             /\ hrToast' = HrToast("success", "Candidate", update.status)
        ELSE /\ ar' = [ar EXCEPT !.updates = @ (-) SetToBag({update})]
             /\ hrToast' = HrToast("error", res, update.id)
             /\ UNCHANGED applications
    /\ UNCHANGED <<candidateVars, structureVars, parsedResumes, page, ra,
                   ins,
                   endpointScores>>

\* Parse Resume & Match of an application is rendered when the local entry
\* has no parsed_resume and is enabled when nothing is processing
ArParseOffered(app) ==
    ArShown /\ ar.processing = NoApp /\ app.parsed_resume = Absent

\* Parse Resume & Match of an application is pressed: handleParseResume
\* sets processing and awaits parseResume
ArParseClick ==
    /\ ArInFlight < MaxInFlight
    /\ Len(parsedResumes) < MaxParsed
    /\ \E app \in Entries(ar.apps) :
        /\ ArParseOffered(app)
        /\ ar' = [ar EXCEPT !.processing = app.id,
                            !.parse = [ParseIdle EXCEPT
                                !.pc = "parseResume",
                                !.app = app.id,
                                !.resume_text = app.resume_text,
                                !.request = ServiceRequest(app.resume_text)]]
    /\ UNCHANGED <<candidateVars, applications, structureVars,
                   parsedResumes, page, ra, ins, hrToast,
                   endpointScores>>

\* catch of handleParseResume, without its finally
ArParseFailedStillBusy(message) ==
    /\ ar' = [ar EXCEPT !.parse = ParseIdle]
    /\ hrToast' = HrToast("error", message, ar.parse.app)

\* what catch and finally of handleParseResume leave
ArParseFailed(message) ==
    /\ ar' = [ar EXCEPT !.processing = NoApp, !.parse = ParseIdle]
    /\ hrToast' = HrToast("error", message, ar.parse.app)

\* parseResume returns and the insert follows without matchResumeWithJD, or
\* it throws
ArParseResumeThenInsert ==
    /\ page = "ApplicationReview"
    /\ ar.parse.pc = "parseResume"
    /\ \/ \E result \in ParseResults :
            /\ ar' = [ar EXCEPT
                    !.parse.pc = "insert",
                    !.parse.parsed = result,
                    !.parse.match = Some([score |-> Absent]),
                    !.parse.request = Absent]
            /\ UNCHANGED hrToast
       \/ ArParseFailed(ServiceError)
    /\ UNCHANGED <<candidateVars, applications, structureVars,
                   parsedResumes, page, ra, ins,
                   endpointScores>>

\* parseResume returns or throws
ArParseResume ==
    /\ page = "ApplicationReview"
    /\ ar.parse.pc = "parseResume"
    /\ \/ \E result \in ParseResults :
            /\ ar' = [ar EXCEPT
                    !.parse.pc = "matchResumeWithJD",
                    !.parse.parsed = result,
                    !.parse.request = ServiceRequest(ar.parse.resume_text)]
            /\ UNCHANGED hrToast
       \/ ArParseFailed(ServiceError)
    /\ UNCHANGED <<candidateVars, applications, structureVars,
                   parsedResumes, page, ra, ins,
                   endpointScores>>

\* matchResumeWithJD returns or throws
ArMatch ==
    /\ page = "ApplicationReview"
    /\ ar.parse.pc = "matchResumeWithJD"
    /\ \/ \E result \in MatchResults :
            /\ ar' = [ar EXCEPT !.parse.pc = "insert",
                                !.parse.match = Some(result),
                                !.parse.request = Absent]
            /\ UNCHANGED hrToast
       \/ ArParseFailed(ServiceError)
    /\ UNCHANGED <<candidateVars, applications, structureVars,
                   parsedResumes, page, ra, ins,
                   endpointScores>>

\* the row handleParseResume inserts: match_score: matchResult.score || 0
ParsedResumeRow(id, parsed, match) ==
    [application_id |-> id, parsed_data |-> parsed,
     match_score |-> OrElse(match.score, Some(0)), match_details |-> match]

\* the insert into parsed_resumes returns: after a success a refresh is
\* started without being awaited and the success is notified; an error is
\* notified; processing is reset either way
ArParseInsert ==
    /\ page = "ApplicationReview"
    /\ ar.parse.pc = "insert"
    /\ \/ /\ parsedResumes' = Append(parsedResumes,
                ParsedResumeRow(ar.parse.app, ar.parse.parsed,
                                ar.parse.match[1]))
          /\ ar' = [ar EXCEPT !.processing = NoApp, !.parse = ParseIdle,
                              !.fetches = @ (+) SetToBag({ArFetch})]
          /\ hrToast' = HrToast("success", "Resume parsed successfully!",
                                ar.parse.app)
       \/ /\ ArParseFailed(BackendError)
          /\ UNCHANGED parsedResumes
    /\ UNCHANGED <<candidateVars, applications, structureVars, page, ra,
                   ins,
                   endpointScores>>

----------------------------------------------------------------------------
(* ReviewApplications: the page, reviewSingleApplication,                  *)
(* reviewAllApplications and the View Analysis handler                     *)

\* how the runs of the last reviewAllApplications have ended: the
\* applications whose update succeeded and those whose update failed
NoOutcomes == [marked |-> {}, failed |-> {}]

\* the state of the component when it mounts: useEffect has started
\* fetchJobAndApplications
RaMounted(route) ==
    [route |-> route, job |-> NoJob, loading |-> TRUE, apps |-> <<>>,
     reviewing |-> FALSE, selectedAnalysis |-> Absent, fetching |-> TRUE,
     reviews |-> EmptyBag, all |-> FALSE, views |-> EmptyBag,
     outcomes |-> NoOutcomes]

RaUnmounted ==
    [route |-> NoJob, job |-> NoJob, loading |-> FALSE, apps |-> <<>>,
     reviewing |-> FALSE, selectedAnalysis |-> Absent, fetching |-> FALSE,
     reviews |-> EmptyBag, all |-> FALSE, views |-> EmptyBag,
     outcomes |-> NoOutcomes]

\* a row as ReviewApplications holds it
RaApplication(id) ==
    [id |-> id, status |-> applications[id].status,
     match_score |-> applications[id].match_score,
     ai_review |-> applications[id].ai_review,
     resume |-> ColumnOf(applications[id], "resume")]

\* the list that select('*').eq('job_id', route) returns
RaSelected(route) ==
    LET ids == IdsOfJob(route)
    IN [k \in 1..Len(ids) |-> RaApplication(ids[k])]

\* the state a fetchJobAndApplications leaves when it returns with res
RaFetched(r, res) ==
    [r EXCEPT !.loading = FALSE,
              !.job = IF res = "jobError" THEN @ ELSE r.route,
              !.apps = IF res = "ok" THEN RaSelected(r.route) ELSE @]

\* requests of the page in flight
RaInFlight ==
    (IF ra.fetching THEN 1 ELSE 0) + BagCardinality(ra.reviews)
        + BagCardinality(ra.views)

\* the table of applications is rendered
RaShown == page = "ReviewApplications" /\ ~ra.loading /\ ra.job # NoJob

\* the score of the ai_review of a local application, if it has both
ReviewScore(app) ==
    IF app.ai_review = Absent THEN Absent ELSE app.ai_review[1].match_score

\* the Match Score cell of an application:
\* (match_score || ai_review?.match_score) ? that value + '%' : 'Not reviewed'
ScoreCell(app) ==
    LET score == OrElse(app.match_score, ReviewScore(app))
    IN IF Truthy(score) THEN [shown |-> "score", value |-> score]
       ELSE [shown |-> "Not reviewed", value |-> Absent]

\* the Link of HRDashboard to /jobs/:jobId/ai-review
RaOpen ==
    /\ page = "HRDashboard"
    /\ \E route \in Jobs :
        /\ page' = "ReviewApplications"
        /\ ra' = RaMounted(route)
    /\ hrToast' = NoToast
    /\ UNCHANGED <<candidateVars, applications, structureVars,
                   parsedResumes, ar, ins,
                   endpointScores>>

\* the back arrow, pressed when no request of the page is in flight
RaBack ==
    /\ page = "ReviewApplications"
    /\ ~ra.loading
    /\ RaInFlight = 0
    /\ page' = "HRDashboard"
    /\ ra' = RaUnmounted
    /\ UNCHANGED <<candidateVars, applications, structureVars,
                   parsedResumes, ar, ins, hrToast,
                   endpointScores>>

\* the fetchJobAndApplications of useEffect returns
RaFetchDone ==
    /\ page = "ReviewApplications"
    /\ ra.fetching
    /\ \E res \in {"ok", "jobError", "appError"} :
        /\ ra' = [RaFetched(ra, res) EXCEPT !.fetching = FALSE]
        /\ hrToast' = IF res = "ok" THEN hrToast
                      ELSE HrToast("error", BackendError, NoApp)
    /\ UNCHANGED <<candidateVars, applications, structureVars,
                   parsedResumes, page, ar, ins,
                   endpointScores>>

\* a run of reviewSingleApplication for an application
ReviewRun(id, batch) == [id |-> id, pc |-> "update", batch |-> batch]

\* Review of an application (enabled when reviewing is false):
\* reviewSingleApplication sets reviewing and sends the update
RaReviewClick ==
    /\ RaShown
    /\ ~ra.reviewing
    /\ RaInFlight < MaxInFlight
    /\ \E app \in Entries(ra.apps) :
        /\ ra' = [ra EXCEPT !.reviewing = TRUE,
                            !.reviews = @ (+) SetToBag({ReviewRun(app.id, FALSE)})]
        /\ hrToast' = HrToast("loading", "Analyzing application", app.id)
    /\ UNCHANGED <<candidateVars, applications, structureVars,
                   parsedResumes, page, ar, ins,
                   endpointScores>>

RECURSIVE BatchRuns(_)
BatchRuns(apps) ==
    IF apps = <<>> THEN EmptyBag
    ELSE SetToBag({ReviewRun(Head(apps).id, TRUE)}) (+) BatchRuns(Tail(apps))

\* Review All Applications (enabled when reviewing is false and the list is
\* not empty): reviewSingleApplication is called for every local
\* application and Promise.all is awaited
RaReviewAllClick ==
    /\ RaShown
    /\ ~ra.reviewing
    /\ Len(ra.apps) > 0
    /\ RaInFlight + Len(ra.apps) <= MaxInFlight
    /\ ra' = [ra EXCEPT !.reviewing = TRUE, !.all = TRUE,
                        !.reviews = @ (+) BatchRuns(ra.apps),
                        !.outcomes = NoOutcomes]
    /\ hrToast' = HrToast("loading", "Analyzing application",
                          ra.apps[Len(ra.apps)].id)
    /\ UNCHANGED <<candidateVars, applications, structureVars,
                   parsedResumes, page, ar, ins,
                   endpointScores>>

\* a run of reviewSingleApplication ends with the page state r and the
\* toast t: finally resets reviewing; when it was the last run of a
\* reviewAllApplications, Promise.all resolves, the success of the batch is
\* notified and reviewing is reset. A run ends in pc "update" when its
\* update failed and in pc "refetch" when it succeeded; outcomes records
\* which
RaReviewEnds(run, r, t) ==
    LET left == r.reviews (-) SetToBag({run})
        last == run.batch /\ \A other \in BagToSet(left) : ~other.batch
    IN /\ ra' = [r EXCEPT
                !.reviews = left, !.reviewing = FALSE,
                !.all = IF last THEN FALSE ELSE @,
                !.outcomes.marked =
                    IF run.batch /\ run.pc = "refetch"
                    THEN @ \cup {run.id} ELSE @,
                !.outcomes.failed =
                    IF run.batch /\ run.pc = "update"
                    THEN @ \cup {run.id} ELSE @]
       /\ hrToast' = IF last
                     THEN HrToast("success",
                                  "All applications reviewed successfully!",
                                  NoApp)
                     ELSE t

\* the update of a run returns: after a success it is notified and
\* fetchJobAndApplications is awaited; an error is notified and ends the run
RaReviewUpdateDone ==
    /\ page = "ReviewApplications"
    /\ \E run \in BagToSet(ra.reviews), res \in {BackendOk, BackendError} :
        /\ run.pc = "update"
        /\ IF res = BackendOk
           THEN /\ applications' = StatusUpdated(run.id, "reviewing")
                /\ ra' = [ra EXCEPT !.reviews =
                            (@ (-) SetToBag({run}))
                                (+) SetToBag({[run EXCEPT !.pc = "refetch"]})]
                /\ hrToast' = HrToast("success",
                                      "Application marked for review", run.id)
           ELSE /\ RaReviewEnds(run, ra,
                        HrToast("error", "Failed to mark application", run.id))
                /\ UNCHANGED applications
    /\ UNCHANGED <<candidateVars, structureVars, parsedResumes, page, ar,
                   ins,
                   endpointScores>>

\* the fetchJobAndApplications a run awaits returns (it catches and notifies
\* its own error), and the run ends
RaReviewRefetchDone ==
    /\ page = "ReviewApplications"
    /\ \E run \in BagToSet(ra.reviews), res \in {"ok", "jobError", "appError"} :
        /\ run.pc = "refetch"
        /\ RaReviewEnds(run, RaFetched(ra, res),
                IF res = "ok" THEN hrToast
                ELSE HrToast("error", BackendError, NoApp))
    /\ UNCHANGED <<candidateVars, applications, structureVars,
                   parsedResumes, page, ar, ins,
                   endpointScores>>

\* View Analysis of an application (never disabled): the handler awaits
\* analyzeResume for the application of the row it was pressed in
RaViewClick ==
    /\ RaShown
    /\ RaInFlight < MaxInFlight
    /\ \E app \in Entries(ra.apps) :
        /\ ra' = [ra EXCEPT !.views =
                    @ (+) SetToBag({[app |-> app, pc |-> "analyzeResume",
                                     review |-> Absent,
                                     request |->
                                        ServiceRequest(app.resume)]})]
        /\ hrToast' = HrToast("loading", "Analyzing application", app.id)
    /\ UNCHANGED <<candidateVars, applications, structureVars,
                   parsedResumes, page, ar, ins,
                   endpointScores>>

\* analyzeResume returns an AIReview, and the update of the row is sent; or
\* it throws, and the failure is notified
RaViewAnalyzed ==
    /\ page = "ReviewApplications"
    /\ \E run \in BagToSet(ra.views) :
        /\ run.pc = "analyzeResume"
        /\ \/ \E aiReview \in AIReviews :
                /\ ra' = [ra EXCEPT !.views =
                            (@ (-) SetToBag({run}))
                                (+) SetToBag({[run EXCEPT
                                                !.pc = "update",
                                                !.review = Some(aiReview),
                                                !.request = Absent]})]
                /\ UNCHANGED hrToast
           \/ /\ ra' = [ra EXCEPT !.views = @ (-) SetToBag({run})]
              /\ hrToast' = HrToast("error", "Failed to analyze application",
                                    run.app.id)
    /\ UNCHANGED <<candidateVars, applications, structureVars,
                   parsedResumes, page, ar, ins,
                   endpointScores>>

\* update({status: 'reviewing'})
ReviewWrittenStatusOnly(row, aiReview) == [row EXCEPT !.status = "reviewing"]

\* update({ai_review, match_score: aiReview.match_score, status:
\* 'reviewing'}): the row it leaves; a field that is undefined is not sent
ReviewWritten(row, aiReview) ==
    [row EXCEPT !.ai_review = Some(aiReview),
                !.match_score =
                    IF aiReview.match_score = Absent THEN @
                    ELSE aiReview.match_score,
                !.status = "reviewing"]

\* updatedApplication: the application of the click with the review
ReviewedLocally(app, aiReview) ==
    [app EXCEPT !.ai_review = Some(aiReview),
                !.match_score = aiReview.match_score]

\* prev.map(app => updatedApplication)
ReplaceEvery(apps, updated) == [k \in 1..Len(apps) |-> updated]

\* prev.map(app => app.id === application.id ? updatedApplication : app)
ReplaceById(apps, updated) ==
    [k \in 1..Len(apps) |->
        IF apps[k].id = updated.id THEN updated ELSE apps[k]]

\* the update of the row returns: after a success the local list and
\* selectedAnalysis are set and the success is notified; an error is
\* notified
RaViewUpdateDone ==
    /\ page = "ReviewApplications"
    /\ \E run \in BagToSet(ra.views), res \in {BackendOk, BackendError} :
        /\ run.pc = "update"
        /\ IF res = BackendOk
           THEN LET updated == ReviewedLocally(run.app, run.review[1])
                IN /\ applications' =
                        [applications EXCEPT ![run.app.id] =
                            ReviewWritten(@, run.review[1])]
                   /\ ra' = [ra EXCEPT
                        !.views = @ (-) SetToBag({run}),
                        !.apps = ReplaceById(@, updated),
                        !.selectedAnalysis =
                            Some([application |-> updated,
                                  analysis |-> run.review[1]])]
                   /\ hrToast' = HrToast("success", "Analysis complete",
                                         run.app.id)
           ELSE /\ ra' = [ra EXCEPT !.views = @ (-) SetToBag({run})]
                /\ hrToast' = HrToast("error",
                                      "Failed to analyze application",
                                      run.app.id)
                /\ UNCHANGED applications
    /\ UNCHANGED <<candidateVars, structureVars, parsedResumes, page, ar,
                   ins,
                   endpointScores>>

\* the close button of the analysis modal
RaCloseAnalysis ==
    /\ page = "ReviewApplications"
    /\ ra.selectedAnalysis # Absent
    /\ ra' = [ra EXCEPT !.selectedAnalysis = Absent]
    /\ UNCHANGED <<candidateVars, applications, structureVars,
                   parsedResumes, page, ar, ins, hrToast,
                   endpointScores>>

----------------------------------------------------------------------------
(* ApplicationInsights: the page, fetchApplication, analyzeResume and      *)
(* updateStatus                                                            *)

\* the state of the component when it mounts: useEffect has started
\* fetchApplication
InsMounted(id) ==
    [id |-> id, application |-> Absent, job |-> NoJob, insights |-> <<>>,
     loading |-> TRUE, analyzing |-> FALSE, updating |-> FALSE,
     fetching |-> TRUE, analysis |-> "idle", reads |-> 0,
     sent |-> <<>>, request |-> Absent, update |-> Absent, routes |-> 0,
     wire |-> <<>>]

InsUnmounted ==
    [id |-> NoApp, application |-> Absent, job |-> NoJob, insights |-> <<>>,
     loading |-> FALSE, analyzing |-> FALSE, updating |-> FALSE,
     fetching |-> FALSE, analysis |-> "idle", reads |-> 0,
     sent |-> <<>>, request |-> Absent, update |-> Absent, routes |-> 0,
     wire |-> <<>>]

\* a row as ApplicationInsights holds it
InsApplication(id) ==
    [id |-> id, job_id |-> applications[id].job_id,
     status |-> applications[id].status,
     resume |-> ColumnOf(applications[id], "resume")]

\* the page of the application is rendered
InsShown ==
    page = "ApplicationInsights" /\ ~ins.loading /\ ins.application # Absent

\* the Review button of an application in the list of applications (it is
\* rendered for every application) opens /applications/:id/review
InsOpen ==
    /\ page = "HRDashboard"
    /\ \E id \in AppIds :
        /\ page' = "ApplicationInsights"
        /\ ins' = InsMounted(id)
    /\ appResume' = <<>>
    /\ structuredResume' = Null
    /\ hrToast' = NoToast
    /\ UNCHANGED <<candidateVars, applications, parsedResumes, ar, ra,
                   endpointScores>>

\* Back to Applications, pressed when no update is in flight; a response
\* of the model still being read is dropped with the component
InsBack ==
    /\ page = "ApplicationInsights"
    /\ ~ins.loading
    /\ ins.update = Absent
    /\ page' = "HRDashboard"
    /\ ins' = InsUnmounted
    /\ UNCHANGED <<candidateVars, applications, structureVars,
                   parsedResumes, ar, ra, hrToast,
                   endpointScores>>

\* the id of the route changes while the page stays mounted (the effect on
\* [id] runs fetchApplication again; no state of the component is reset),
\* here when no request of the page is in flight
InsRouteChange ==
    /\ page = "ApplicationInsights"
    /\ ~ins.fetching
    /\ ins.analysis \notin {"fetch", "stream"}
    /\ ins.update = Absent
    /\ ins.routes < MaxRouteChanges
    /\ \E id \in AppIds \ {ins.id} :
        ins' = [ins EXCEPT !.id = id, !.fetching = TRUE, !.routes = @ + 1]
    /\ UNCHANGED <<candidateVars, applications, structureVars,
                   parsedResumes, page, ar, ra, hrToast,
                   endpointScores>>

\* fetchApplication returns: the select of the application failed; or the
\* application is set and the select of its job failed; or both are set
\* and, for a resume that is not empty, structureResume has set the
\* structure and analyzeResume has sent its request. loading is reset
InsFetchDone ==
    /\ page = "ApplicationInsights"
    /\ ins.fetching
    /\ \E res \in {"ok", "appError", "jobError"} :
        LET data == InsApplication(ins.id)
            analyze == res = "ok" /\ data.resume # Absent
                        /\ data.resume[1] # <<>>
        IN /\ ins' = [ins EXCEPT
                    !.fetching = FALSE,
                    !.loading = FALSE,
                    !.application = IF res = "appError" THEN @ ELSE Some(data),
                    !.job = IF res = "ok" THEN data.job_id ELSE @,
                    !.analyzing = analyze,
                    !.analysis = IF analyze THEN "fetch" ELSE @,
                    !.reads = IF analyze THEN 0 ELSE @,
                    !.sent = IF analyze THEN <<>> ELSE @,
                    !.request = IF analyze
                                THEN Some(PromptResume(data.resume[1]))
                                ELSE @]
           /\ hrToast' = IF res = "ok" THEN hrToast
                         ELSE HrToast("error", BackendError, ins.id)
           /\ IF analyze
              THEN /\ appResume' = data.resume[1]
                   /\ structuredResume' = Structure(data.resume[1])
              ELSE UNCHANGED structureVars
    /\ UNCHANGED <<candidateVars, applications, parsedResumes, page, ar, ra,
                   endpointScores>>

\* catch { setInsights(''); toast.error(...) }
InsAnalysisFailedCleared ==
    /\ ins' = [ins EXCEPT !.analyzing = FALSE, !.analysis = "failed",
                           !.request = Absent, !.insights = <<>>]
    /\ hrToast' = HrToast("error", "Analysis failed", ins.id)

\* what catch and finally of analyzeResume leave
InsAnalysisFailed ==
    /\ ins' = [ins EXCEPT !.analyzing = FALSE, !.analysis = "failed",
                           !.request = Absent]
    /\ hrToast' = HrToast("error", "Analysis failed", ins.id)

\* the fetch of /api/generate returns: a response with a body is read as a
\* stream; another status, no body or a network error throws
InsAnalyzeResponse ==
    /\ page = "ApplicationInsights"
    /\ ins.analysis = "fetch"
    /\ \/ /\ ins' = [ins EXCEPT !.analysis = "stream", !.request = Absent]
          /\ UNCHANGED hrToast
       \/ InsAnalysisFailed
    /\ UNCHANGED <<candidateVars, applications, structureVars,
                   parsedResumes, page, ar, ra,
                   endpointScores>>

\* the JSON text of a line of the stream around its response text:
\* {"response":" and "}
Json ==
    [Open |-> <<123, 34, 114, 101, 115, 112, 111, 110, 115, 101, 34, 58, 34>>,
     Close |-> <<34, 125>>]

\* the line the endpoint sends for a response text without escapes
ResponseLine(text) == Json.Open \o text \o Json.Close

\* the response texts of the model: "a" and "\u00e9" (two bytes on the wire)
ResponseTexts == {<<97>>, <<233>>}

\* a line cut short, which JSON.parse rejects: {"resp
MalformedLine == <<123, 34, 114, 101, 115, 112>>

\* the lines the endpoint may send
StreamLines == {ResponseLine(text) : text \in ResponseTexts}
                    \cup {MalformedLine}

\* the lines of one chunk: reader.read() returns them as UTF-8 bytes, each
\* line followed by a newline
ChunkLines == UNION {[1..k -> StreamLines] : k \in 1..MaxChunkLines}

RECURSIVE ChunkText(_)
ChunkText(lines) ==
    IF lines = <<>> THEN <<>>
    ELSE Head(lines) \o <<10>> \o ChunkText(Tail(lines))

\* JSON.parse(line), for a line that is an object with the single member
\* response holding a string without escapes, after the white space JSON
\* allows around a value; any other line of the model is rejected
JsonParse(line) ==
    LET solid == {k \in 1..Len(line) : line[k] \notin {32, 9, 10, 13}}
        t == IF solid = {} THEN <<>>
             ELSE SubSeq(line, Min(solid), Max(solid))
        body == SubSeq(t, Len(Json.Open) + 1, Len(t) - Len(Json.Close))
    IN  IF /\ Len(t) >= Len(Json.Open) + Len(Json.Close)
           /\ SubSeq(t, 1, Len(Json.Open)) = Json.Open
           /\ SubSeq(t, Len(t) - Len(Json.Close) + 1, Len(t)) = Json.Close
           /\ \A k \in 1..Len(body) : body[k] >= 32 /\ body[k] \notin {34, 92}
        THEN [ok |-> TRUE, response |-> body]
        ELSE [ok |-> FALSE, response |-> <<>>]

\* chunk.split('\n').filter(line => line.trim())
LinesOf(chunk) ==
    SelectSeq(SplitOnChars(chunk, {10}), LAMBDA line : Trim(line) # <<>>)

\* setInsights(prev => parsed.response + prev)
LineAppliedInFront(prev, line) ==
    LET parsed == JsonParse(line)
    IN  IF parsed.ok THEN parsed.response \o prev ELSE prev

\* the body of lines.forEach on one line: setInsights(prev => prev +
\* parsed.response) when the line parses, a logged error when it does not
LineApplied(prev, line) ==
    LET parsed == JsonParse(line)
    IN  IF parsed.ok THEN prev \o parsed.response ELSE prev

\* lines.forEach
RECURSIVE LinesApplied(_, _)
LinesApplied(prev, lines) ==
    IF lines = <<>> THEN prev
    ELSE LinesApplied(LineApplied(prev, Head(lines)), Tail(lines))

\* reader.read() returns: a chunk, decoded and split into lines whose
\* responses are appended to insights; or done, which ends the loop; or it
\* throws. sent records the lines the endpoint has sent
InsAnalyzeRead ==
    /\ page = "ApplicationInsights"
    /\ ins.analysis = "stream"
    /\ \/ /\ ins.reads < MaxReads
          /\ \E lines \in ChunkLines :
                LET value == Utf8Encode(ChunkText(lines))
                    chunk == Utf8Decode(value)
                IN  ins' = [ins EXCEPT
                        !.insights = LinesApplied(@, LinesOf(chunk)),
                        !.reads = @ + 1,
                        !.sent = @ \o lines]
          /\ UNCHANGED hrToast
       \/ /\ ins' = [ins EXCEPT !.analyzing = FALSE, !.analysis = "done"]
          /\ UNCHANGED hrToast
       \/ InsAnalysisFailed
    /\ UNCHANGED <<candidateVars, applications, structureVars,
                   parsedResumes, page, ar, ra,
                   endpointScores>>

\* reader.read() returns with a transport that cuts the byte stream
\* anywhere: the endpoint has sent the bytes in wire, and may send one more
\* line; the chunk is a part of them that is not empty, decoded by itself
\* and split into lines, and the rest stays in wire. done comes when the
\* bytes have all been read
InsAnalyzeReadBytes ==
    /\ page = "ApplicationInsights"
    /\ ins.analysis = "stream"
    /\ \/ /\ \E lines \in {<<>>} \cup
                    (IF Len(ins.sent) < MaxSent
                     THEN {<<line>> : line \in StreamLines} ELSE {}) :
                LET bytes == ins.wire \o Utf8Encode(ChunkText(lines))
                IN  \E n \in 1..Len(bytes) :
                        LET value == SubSeq(bytes, 1, n)
                            chunk == Utf8Decode(value)
                        IN  ins' = [ins EXCEPT
                                !.insights = LinesApplied(@, LinesOf(chunk)),
                                !.wire = SubSeq(bytes, n + 1, Len(bytes)),
                                !.sent = @ \o lines]
          /\ UNCHANGED hrToast
       \/ /\ ins.wire = <<>>
          /\ ins' = [ins EXCEPT !.analyzing = FALSE, !.analysis = "done"]
          /\ UNCHANGED hrToast
       \/ InsAnalysisFailed
    /\ UNCHANGED <<candidateVars, applications, structureVars,
                   parsedResumes, page, ar, ra,
                   endpointScores>>

\* Accept Candidate and Reject Candidate are rendered when insights is not
\* empty
InsControlsRendered == InsShown /\ ins.insights # <<>>

\* Accept Candidate or Reject Candidate (enabled when updating is false):
\* updateStatus sets updating and sends the update
InsStatusClick ==
    /\ InsControlsRendered
    /\ ~ins.updating
    /\ \E status \in {"selected", "rejected"} :
        ins' = [ins EXCEPT !.updating = TRUE, !.update = Some(status)]
    /\ UNCHANGED <<candidateVars, applications, structureVars,
                   parsedResumes, page, ar, ra, hrToast,
                   endpointScores>>

\* the update of updateStatus returns: a success is notified and
\* navigate(-1) leaves the page; an error is notified and updating is reset
InsUpdateDone ==
    /\ page = "ApplicationInsights"
    /\ ins.update # Absent
    /\ \E res \in {BackendOk, BackendError} :
        IF res = BackendOk
        THEN /\ applications' = StatusUpdated(ins.id, ins.update[1])
             /\ hrToast' = HrToast("success", "Candidate", ins.update[1])
             /\ page' = "HRDashboard"
             /\ ins' = InsUnmounted
        ELSE /\ hrToast' = HrToast("error", res, ins.id)
             /\ ins' = [ins EXCEPT !.updating = FALSE, !.update = Absent]
             /\ UNCHANGED <<applications, page,
                   endpointScores>>
    /\ UNCHANGED <<candidateVars, structureVars, parsedResumes, ar, ra,
                   endpointScores>>

----------------------------------------------------------------------------
(* Specifications *)

UploadInit ==
    /\ formResumeText = <<>>
    /\ upload = UploadIdle
    /\ jdToast = NoToast

StructureInit ==
    /\ structuredResume = Null

\* no candidate page is open
CandidateIdle ==
    /\ UploadInit
    /\ LoginClosed
    /\ fileChoices = {}
    /\ jd = JdUnmounted(NoUser)
    /\ dash = [d \in Dash |-> DashUnmounted(NoUser)]
    /\ applications = <<>>

\* the review pages as they are before one is opened
ReviewClosed ==
    /\ parsedResumes = <<>>
    /\ ar = ArUnmounted
    /\ ra = RaUnmounted
    /\ ins = InsUnmounted
    /\ hrToast = NoToast

\* no review page is open
ReviewIdle ==
    /\ ReviewClosed
    /\ endpointScores = {}

\* no recruiter page is open
RecruiterIdle ==
    /\ StructureInit
    /\ appResume = <<>>
    /\ page = "none"
    /\ ReviewIdle

\* the JobDetails form alone, with every file of the model on offer
InitUpload ==
    /\ UploadInit
    /\ LoginClosed
    /\ fileChoices = AllFiles
    /\ \E route \in Jobs : jd = JdMounted(route, NoUser)
    /\ dash = [d \in Dash |-> DashUnmounted(NoUser)]
    /\ applications = <<>>
    /\ RecruiterIdle

NextUpload ==
    \/ fetchJobDetails
    \/ UploadChoose
    \/ UploadFinishPlain
    \/ UploadFinishDoc
    \/ UploadFinishOther

SpecUpload == InitUpload /\ [][NextUpload]_vars

\* the files a candidate submits in the submission model: a text, a file of
\* white space, an empty file
SubmittedFiles ==
    {File(PlainType, <<97>>), File(DocxType, <<32>>), File(PdfType, <<>>)}

\* the candidate pages: one tab on the JobDetails form, NumDash tabs on the
\* CandidateDashboard, each with the session of some candidate or of nobody;
\* the applications table is empty
InitApply ==
    /\ UploadInit
    /\ LoginClosed
    /\ fileChoices = SubmittedFiles
    /\ \E route \in Jobs, user \in Users \cup {NoUser} :
        jd = JdMounted(route, user)
    /\ \E users \in [Dash -> Users \cup {NoUser}] :
        dash = [d \in Dash |-> IF d = 0 THEN DashUnmounted(NoUser)
                               ELSE DashMounted(users[d])]
    /\ applications = <<>>
    /\ RecruiterIdle

NextApply ==
    \/ fetchJobDetails
    \/ UploadChoose
    \/ UploadFinishPlain
    \/ UploadFinishDoc
    \/ UploadFinishOther
    \/ SubmitClick
    \/ SubmitGetUser
    \/ SubmitInsert
    \/ JdOpen
    \/ \E d \in Dash : DashFetchDone(d)
    \/ \E d \in Dash : DashSetTab(d)
    \/ \E d \in Dash : ApplyNoFile(d)
    \/ \E d \in Dash : ApplyChoose(d)
    \/ \E d \in Dash : ApplyGetUser(d)
    \/ \E d \in Dash : ApplyCheck(d)
    \/ \E d \in Dash : ApplyInsert(d)
    \/ \E d \in Dash : ApplyRefetch(d)

SpecApply == InitApply /\ [][NextApply]_vars

\* structureResume alone, over the resume texts of the model
InitStructure ==
    /\ CandidateIdle
    /\ StructureInit
    /\ appResume \in ResumeTexts
    /\ page = "none"
    /\ ReviewIdle

NextStructure ==
    \/ structureResume

SpecStructure == InitStructure /\ [][NextStructure]_vars

\* the resumes of the applications under review
ReviewedTexts == {<<97>>}

\* the rows candidates have submitted, by either form
SubmittedRows ==
    {ApplicationRow(job, user, column, text) :
        job \in Jobs, user \in Users, column \in {"resume_text", "resume"},
        text \in ReviewedTexts}

\* the recruiter is on HRDashboard, NumApps applications have been
\* submitted and no candidate page is open
Init ==
    /\ UploadInit
    /\ LoginClosed
    /\ fileChoices = {}
    /\ jd = JdUnmounted(NoUser)
    /\ dash = [d \in Dash |-> DashUnmounted(NoUser)]
    /\ applications \in [1..NumApps -> SubmittedRows]
    /\ StructureInit
    /\ appResume = <<>>
    /\ page = "HRDashboard"
    /\ ReviewClosed
    /\ endpointScores \in ScoreChoices

Next ==
    \/ ArOpen
    \/ ArBack
    \/ ArFetchServed
    \/ ArFetchDone
    \/ ArStatusClick
    \/ ArUpdateDone
    \/ ArParseClick
    \/ ArParseResume
    \/ ArMatch
    \/ ArParseInsert
    \/ RaOpen
    \/ RaBack
    \/ RaFetchDone
    \/ RaReviewClick
    \/ RaReviewAllClick
    \/ RaReviewUpdateDone
    \/ RaReviewRefetchDone
    \/ RaViewClick
    \/ RaViewAnalyzed
    \/ RaViewUpdateDone
    \/ RaCloseAnalysis
    \/ InsOpen
    \/ InsBack
    \/ InsFetchDone
    \/ InsAnalyzeResponse
    \/ InsAnalyzeRead
    \/ InsStatusClick
    \/ InsUpdateDone

Spec == Init /\ [][Next]_vars

\* the ReviewApplications page of a job with BatchApps applications has
\* just been opened
InitBatch ==
    /\ UploadInit
    /\ LoginClosed
    /\ fileChoices = {}
    /\ jd = JdUnmounted(NoUser)
    /\ dash = [d \in Dash |-> DashUnmounted(NoUser)]
    /\ applications \in [1..BatchApps -> SubmittedRows]
    /\ StructureInit
    /\ appResume = <<>>
    /\ page = "ReviewApplications"
    /\ \E route \in Jobs : ra = RaMounted(route)
    /\ parsedResumes = <<>>
    /\ ar = ArUnmounted
    /\ ins = InsUnmounted
    /\ hrToast = NoToast
    /\ endpointScores \in ScoreChoices

\* Review and Review All Applications
NextBatch ==
    \/ RaFetchDone
    \/ RaReviewClick
    \/ RaReviewAllClick
    \/ RaReviewUpdateDone
    \/ RaReviewRefetchDone

SpecBatch == InitBatch /\ [][NextBatch]_vars

\* View Analysis
NextViews ==
    \/ RaFetchDone
    \/ RaViewClick
    \/ RaViewAnalyzed
    \/ RaViewUpdateDone
    \/ RaCloseAnalysis

SpecViews == InitBatch /\ [][NextViews]_vars

\* the ApplicationInsights page of an application has just been opened
InitInsights ==
    /\ UploadInit
    /\ LoginClosed
    /\ fileChoices = {}
    /\ jd = JdUnmounted(NoUser)
    /\ dash = [d \in Dash |-> DashUnmounted(NoUser)]
    /\ applications \in [1..NumApps -> SubmittedRows]
    /\ StructureInit
    /\ appResume = <<>>
    /\ page = "ApplicationInsights"
    /\ \E id \in AppIds : ins = InsMounted(id)
    /\ parsedResumes = <<>>
    /\ ar = ArUnmounted
    /\ ra = RaUnmounted
    /\ hrToast = NoToast
    /\ endpointScores \in ScoreChoices

NextInsights ==
    \/ InsFetchDone
    \/ InsAnalyzeResponse
    \/ InsAnalyzeRead
    \/ InsStatusClick
    \/ InsUpdateDone
    \/ InsBack

SpecInsights == InitInsights /\ [][NextInsights]_vars

\* the ApplicationInsights page of one of BatchApps applications has just
\* been opened
InitStreams ==
    /\ UploadInit
    /\ LoginClosed
    /\ fileChoices = {}
    /\ jd = JdUnmounted(NoUser)
    /\ dash = [d \in Dash |-> DashUnmounted(NoUser)]
    /\ applications \in [1..BatchApps -> SubmittedRows]
    /\ StructureInit
    /\ appResume = <<>>
    /\ page = "ApplicationInsights"
    /\ \E id \in AppIds : ins = InsMounted(id)
    /\ parsedResumes = <<>>
    /\ ar = ArUnmounted
    /\ ra = RaUnmounted
    /\ hrToast = NoToast
    /\ endpointScores \in ScoreChoices

\* the analyses of the applications the route shows in turn
NextStreams ==
    \/ InsFetchDone
    \/ InsRouteChange
    \/ InsAnalyzeResponse
    \/ InsAnalyzeRead

SpecStreams == InitStreams /\ [][NextStreams]_vars

\* the analysis of an application over a transport that cuts the stream
\* anywhere
NextChunks ==
    \/ InsFetchDone
    \/ InsAnalyzeResponse
    \/ InsAnalyzeReadBytes

SpecChunks == InitInsights /\ [][NextChunks]_vars

\* the Login page has just been opened
InitLogin ==
    /\ UploadInit
    /\ login = LoginMounted
    /\ fileChoices = {}
    /\ jd = JdUnmounted(NoUser)
    /\ dash = [d \in Dash |-> DashUnmounted(NoUser)]
    /\ applications = <<>>
    /\ RecruiterIdle

\* the tab of a user: at the Login page, on the candidate's pages or on the
\* recruiter's pages
InitPages == InitLogin \/ InitApply \/ Init

NextPages ==
    \/ setEmail
    \/ setPassword
    \/ LoginSubmit
    \/ LoginSignedIn
    \/ LoginProfile
    \/ LoginOpen
    \/ fetchJobDetails
    \/ UploadChoose
    \/ UploadFinishPlain
    \/ UploadFinishDoc
    \/ UploadFinishOther
    \/ SubmitClick
    \/ SubmitGetUser
    \/ SubmitInsert
    \/ JdOpen
    \/ \E d \in Dash : DashFetchDone(d)
    \/ \E d \in Dash : DashSetTab(d)
    \/ \E d \in Dash : ApplyNoFile(d)
    \/ \E d \in Dash : ApplyChoose(d)
    \/ \E d \in Dash : ApplyGetUser(d)
    \/ \E d \in Dash : ApplyCheck(d)
    \/ \E d \in Dash : ApplyInsert(d)
    \/ \E d \in Dash : ApplyRefetch(d)
    \/ ArOpen
    \/ ArBack
    \/ ArFetchServed
    \/ ArFetchDone
    \/ ArStatusClick
    \/ ArUpdateDone
    \/ ArParseClick
    \/ ArParseResume
    \/ ArMatch
    \/ ArParseInsert
    \/ RaOpen
    \/ RaBack
    \/ RaFetchDone
    \/ RaReviewClick
    \/ RaReviewAllClick
    \/ RaReviewUpdateDone
    \/ RaReviewRefetchDone
    \/ RaViewClick
    \/ RaViewAnalyzed
    \/ RaViewUpdateDone
    \/ RaCloseAnalysis
    \/ InsOpen
    \/ InsBack
    \/ InsFetchDone
    \/ InsAnalyzeResponse
    \/ InsAnalyzeRead
    \/ InsStatusClick
    \/ InsUpdateDone

SpecPages == InitPages /\ [][NextPages]_vars

\* resumes around the length the prompt keeps: a text of n code units whose
\* code units differ from place to place
LongText(n) == [k \in 1..n |-> 97 + (k % 26)]

LongTexts == {LongText(n) : n \in {1, PrefixLength, PrefixLength + 1,
                                    2 * PrefixLength}}

LongRows ==
    {ApplicationRow(job, user, column, text) :
        job \in Jobs, user \in Users, column \in {"resume_text", "resume"},
        text \in LongTexts}

\* the recruiter is on HRDashboard and the applications submitted hold
\* resumes shorter and longer than the prefix
InitRequests ==
    /\ UploadInit
    /\ LoginClosed
    /\ fileChoices = {}
    /\ jd = JdUnmounted(NoUser)
    /\ dash = [d \in Dash |-> DashUnmounted(NoUser)]
    /\ applications \in [1..NumApps -> LongRows]
    /\ StructureInit
    /\ appResume = <<>>
    /\ page = "HRDashboard"
    /\ ReviewClosed
    /\ endpointScores \in ScoreChoices

\* the steps of the review pages up to the requests that carry resume text
NextRequests ==
    \/ ArOpen
    \/ ArFetchServed
    \/ ArFetchDone
    \/ ArParseClick
    \/ ArParseResume
    \/ ArMatch
    \/ RaOpen
    \/ RaFetchDone
    \/ RaViewClick
    \/ RaViewAnalyzed
    \/ InsOpen
    \/ InsFetchDone
    \/ InsAnalyzeResponse

SpecRequests == InitRequests /\ [][NextRequests]_vars


----------------------------------------------------------------------------
(* Claims about the submission of applications *)

\* C1: after any interleaving of handleApply and handleSubmit runs, the
\* applications table holds at most one row for each pair of a job and a
\* candidate
C1_OneRowPerPair ==
    \A job \in Jobs, user \in Users : Cardinality(RowsOf(job, user)) <= 1

----------------------------------------------------------------------------
(* Claims about the review pages (checked under Spec)                      *)

Terminal(status) == status \in {"selected", "rejected"}

\* C2: once the persisted status of an application is selected or
\* rejected, no step of a review page changes it
C2_TerminalAbsorbing ==
    [][\A id \in AppIds :
            Terminal(applications[id].status)
                => applications'[id].status = applications[id].status]_vars

\* C3: an application whose status is selected (in the table and in the
\* page's copy) is offered no Select/Accept or Reject control, neither by
\* ApplicationReview nor by ApplicationInsights
C3_SelectedNotOffered ==
    /\ \A app \in Entries(ar.apps) :
            app.status = "selected" /\ applications[app.id].status = "selected"
                => ~ArControlsRendered(app)
    /\ ins.application # Absent
            /\ ins.application[1].status = "selected"
            /\ applications[ins.id].status = "selected"
        => ~(InsControlsRendered /\ ~ins.updating)

InRange(score) == score = Absent \/ (0 <= score[1] /\ score[1] <= 100)

\* C4: every match_score, in the applications table, in the parsed_resumes
\* table and in the state of the pages, lies in 0..100
C4_ScoresInRange ==
    /\ \A id \in AppIds : InRange(applications[id].match_score)
    /\ \A k \in 1..Len(parsedResumes) : InRange(parsedResumes[k].match_score)
    /\ \A app \in Entries(ra.apps) : InRange(app.match_score)
    /\ ra.selectedAnalysis # Absent
        => InRange(ra.selectedAnalysis[1].application.match_score)
    /\ \A app \in Entries(ar.apps) :
            app.parsed_resume # Absent
                => InRange(app.parsed_resume[1].match_score)

\* C5: an application analyzed with score 0 has the score 0 in its Match
\* Score cell, and a match result without a score is not stored as score 0
C5_AbsentIsNotZero ==
    /\ \A app \in Entries(ra.apps) :
            RaShown /\ ReviewScore(app) = Some(0)
                => ScoreCell(app) = [shown |-> "score", value |-> Some(0)]
    /\ \A k \in 1..Len(parsedResumes) :
            parsedResumes[k].match_details.score = Absent
                => parsedResumes[k].match_score # Some(0)

----------------------------------------------------------------------------
(* Claims about handleResumeUpload (checked under SpecUpload)              *)

\* s has no code unit other than white space (the empty text included)
IsBlank(s) == \A i \in 1..Len(s) : s[i] \in WhiteSpace

StartsWithBom(s) == s # <<>> /\ s[1] = 65279

\* C6, as claimed: after handleResumeUpload of a text/plain file whose
\* content is S, formData.resumeText equals S exactly, for every S
C6_PlainRoundTripEveryText ==
    (upload.pc = "done" /\ upload.file.type = PlainType)
        => formResumeText = upload.file.text

\* C6, amended: for every S that has a code unit other than white space and
\* does not start with a byte-order mark, handleResumeUpload of a text/plain
\* file whose content is S ends with formData.resumeText equal to S exactly
C6_PlainRoundTrip ==
    (/\ upload.pc = "done"
     /\ upload.file.type = PlainType
     /\ ~IsBlank(upload.file.text)
     /\ ~StartsWithBom(upload.file.text))
        => formResumeText = upload.file.text

\* C6 witness: a text/plain file with leading and trailing white space has
\* been stored untrimmed
C6_Witness ==
    /\ upload.pc = "done"
    /\ upload.file = File(PlainType, <<32, 97>>)
    /\ formResumeText = <<32, 97>>

\* C7: a run of handleResumeUpload that extracted a text notifies
\* "Could not extract text from the file" exactly when that text is empty or
\* white space only, whatever the declared type; it then leaves
\* formData.resumeText unchanged, and otherwise stores the text and reports
\* success. A run whose extraction threw notifies another error.
C7_FailsIffBlank ==
    [][(upload.pc = "reading" /\ upload'.pc = "done") =>
        IF upload'.outcome = "threw"
        THEN /\ jdToast' # ErrorToast(ExtractionFailed)
             /\ formResumeText' = formResumeText
        ELSE IF IsBlank(upload'.extracted)
        THEN /\ jdToast' = ErrorToast(ExtractionFailed)
             /\ formResumeText' = formResumeText
        ELSE /\ jdToast' = UploadOkToast
             /\ formResumeText' = upload'.extracted]_vars

\* C7 witness: an upload of white space only has failed after an earlier
\* upload had stored a text, which is still there
C7_Witness ==
    /\ upload.pc = "done"
    /\ upload.outcome = "failed"
    /\ upload.file.type = PdfType
    /\ upload.extracted = <<32, 32>>
    /\ jdToast = ErrorToast(ExtractionFailed)
    /\ formResumeText = <<97>>

----------------------------------------------------------------------------
(* Claims about structureResume (checked under SpecStructure)              *)

\* the exact text w occurs in t at position p
OccursAt(t, p, w) == p + Len(w) - 1 <= Len(t) /\ SubSeq(t, p, p + Len(w) - 1) = w

\* t starts with w
StartsWith(t, w) == OccursAt(t, 1, w)

\* the tokens of the list of Line.Skills: Go, Rust, C++
SkillsLineTokens == <<<<71, 111>>, <<82, 117, 115, 116>>, <<67, 43, 43>>>>

\* the first "Skills:" heading of t is that of a Line.Skills, and the list of
\* that line ends the text (with or without a final newline) or is followed
\* by the Experience or Education heading
HasSkillsList(t) ==
    /\ \E p \in 1..Len(t) : OccursAt(t, p, Line.Skills)
    /\ LET p == Min({q \in 1..Len(t) : OccursAt(t, q, Line.Skills)})
           rest == SubSeq(t, p + Len(Line.Skills), Len(t))
       IN  \/ rest = <<>>
           \/ rest = <<10>>
           \/ StartsWith(rest, <<10>> \o Line.Experience)
           \/ StartsWith(rest, <<10>> \o Line.Education)

\* C8, as claimed: for every resume text with a "Skills:" heading followed by
\* a comma-separated list, wherever the list sits (the very end of the text
\* without a final newline included), skills is the list's trimmed non-empty
\* tokens in order
C8_SkillsOfEveryList ==
    (structuredResume # Null /\ HasSkillsList(appResume))
        => structuredResume.skills = SkillsLineTokens

\* the text of the scenario: "Skills: Go, Rust, C++\nExperience:\n2020
\* Engineer at Foo", no final newline
ScenarioText == JoinLines(<<Line.Skills, Line.Experience, Line.Job>>)

\* C9, as claimed: structureResume of the scenario text yields
\* skills = [Go, Rust, C++] and experience = [2020 Engineer at Foo]
C9_Scenario ==
    (structuredResume # Null /\ appResume = ScenarioText)
        => /\ structuredResume.skills = SkillsLineTokens
           /\ structuredResume.experience = <<Line.Job>>

\* e is trimmed and longer than 10 code units
TrimmedAndLong(e) ==
    /\ Len(e) > 10
    /\ e[1] \notin WhiteSpace
    /\ e[Len(e)] \notin WhiteSpace

\* C10: every entry structureResume places in experience or education is
\* trimmed and longer than 10 code units
C10_EntriesTrimmedAndLong ==
    structuredResume # Null =>
        /\ \A i \in 1..Len(structuredResume.experience) :
            TrimmedAndLong(structuredResume.experience[i])
        /\ \A i \in 1..Len(structuredResume.education) :
            TrimmedAndLong(structuredResume.education[i])

\* C10 witness: of the candidate entries "2020 Engineer at Foo", "2019 B.Sc."
\* (10 code units) and "Jan 2021 Intern, Bar " the second was dropped, the
\* third was kept trimmed
C10_Witness ==
    /\ structuredResume # Null
    /\ appResume = JoinLines(<<Line.Experience, Line.Degree, Line.Intern>>)
                        \o <<10>>
    /\ structuredResume.experience = <<Trim(Line.Intern)>>

----------------------------------------------------------------------------
(* C11 *)

\* a heading word of the list occurs somewhere in the text, in any case
HeadingOccurs(t, heads) ==
    \E p \in 1..Len(t) : \E k \in 1..Len(heads) : LitAt(t, p, heads[k])

SectionNames == {"summary", "skills", "experience", "education",
                 "certifications", "contact", "rawText"}

\* every section holds a value of its kind: text for the summary, lists of
\* texts for the others, an empty mapping for contact
SectionsDefined(s) ==
    /\ DOMAIN s = SectionNames
    /\ s.summary \in Seq(Nat)
    /\ s.skills \in Seq(Seq(Nat))
    /\ s.experience \in Seq(Seq(Nat))
    /\ s.education \in Seq(Seq(Nat))
    /\ s.certifications \in Seq(Seq(Nat))
    /\ s.contact = <<>>

\* C11: whatever the text, the structure that structureResume sets has every
\* section defined; a section none of whose heading words occurs in the text
\* is empty; and rawText is present only in the structure of the catch
\* block, where it equals the text and every section is empty
C11_SectionsDefined ==
    structuredResume # Null =>
        /\ SectionsDefined(structuredResume)
        /\ ~HeadingOccurs(appResume, SummaryHeads)
               => structuredResume.summary = <<>>
        /\ ~HeadingOccurs(appResume, SkillsHeads)
               => structuredResume.skills = <<>>
        /\ ~HeadingOccurs(appResume, ExperienceHeads)
               => structuredResume.experience = <<>>
        /\ ~HeadingOccurs(appResume, EducationHeads)
               => structuredResume.education = <<>>
        /\ structuredResume.rawText # Absent
               => structuredResume = CaughtSections(appResume)

\* a text of three lines without any heading word has been structured, and
\* all its sections are empty
C11_Witness ==
    /\ structuredResume # Null
    /\ appResume = JoinLines(<<Line.Job, Line.Degree, Line.Intern>>)
    /\ ~HeadingOccurs(appResume, SummaryHeads \o SkillsHeads
                                  \o ExperienceHeads \o EducationHeads)
    /\ structuredResume = InitialSections

----------------------------------------------------------------------------
(* C12 *)

\* a fragment that is a JSON object carrying a response text
WellFormed(fragment) ==
    \E text \in ResponseTexts : fragment = ResponseLine(text)

ResponseOf(fragment) ==
    CHOOSE text \in ResponseTexts : fragment = ResponseLine(text)

\* the response texts of the well-formed fragments, in the order of the
\* fragments
RECURSIVE ConcatWellFormed(_)
ConcatWellFormed(fragments) ==
    IF fragments = <<>> THEN <<>>
    ELSE (IF WellFormed(Head(fragments)) THEN ResponseOf(Head(fragments))
          ELSE <<>>) \o ConcatWellFormed(Tail(fragments))

----------------------------------------------------------------------------
(* C13 *)

\* text is the resume cut to at most PrefixLength code units
BoundedPrefixOf(text, resume) ==
    /\ Len(text) <= PrefixLength
    /\ Len(text) <= Len(resume)
    /\ text = SubSeq(resume, 1, Len(text))
    /\ Len(resume) <= PrefixLength => text = resume

----------------------------------------------------------------------------
(* C14 *)

\* the toast reviewAllApplications shows when Promise.all resolves
BatchSuccessToast ==
    HrToast("success", "All applications reviewed successfully!", NoApp)

\* C14: the outcome of reviewAllApplications is reported per application:
\* the success of the whole batch is not notified when the run of at least
\* one application has failed
C14_NoBatchSuccessAfterFailure ==
    hrToast = BatchSuccessToast => ra.outcomes.failed = {}

----------------------------------------------------------------------------
(* C15 *)

\* the row of the application holds an AIReview and its score
HasReview(id) ==
    /\ applications[id].ai_review # Absent
    /\ applications[id].match_score # Absent

\* C15: once reviewAllApplications has completed with the run of some
\* application failed, every application whose run did not fail has an
\* AIReview persisted on its row (ai_review and match_score set)
C15_ReviewedUnlessFailed ==
    (/\ page = "ReviewApplications"
     /\ ~ra.all
     /\ ra.outcomes.failed # {})
        => \A id \in ra.outcomes.marked : HasReview(id)

----------------------------------------------------------------------------
(* C16 *)

IsPrefix(s, t) == Len(s) <= Len(t) /\ s = SubSeq(t, 1, Len(s))

\* the request of analyzeResume has been sent and its loop has not ended
Streaming == page = "ApplicationInsights" /\ ins.analysis \in {"fetch", "stream"}

\* C16: while one analyzeResume runs on the page, every step leaves insights
\* a prefix of its next value, and a step in which the request fails
\* notifies the failure and leaves insights as it was
C16_InsightsAppendOnly ==
    [][(Streaming /\ page' = "ApplicationInsights") =>
            /\ IsPrefix(ins.insights, ins'.insights)
            /\ ins'.analysis = "failed" =>
                    /\ hrToast' = HrToast("error", "Analysis failed", ins.id)
                    /\ ins'.insights = ins.insights]_vars

\* the request has failed after a chunk was read: the text of the chunk is
\* still shown, next to the notification of the failure
C16_Witness ==
    /\ InsShown
    /\ ins.analysis = "failed"
    /\ ins.reads = 1
    /\ ins.insights = <<233, 97>>
    /\ hrToast = HrToast("error", "Analysis failed", ins.id)

----------------------------------------------------------------------------
(* C17 *)

\* the edges of pending -> reviewing -> {selected, rejected}
StatusEdges == {<<"pending", "reviewing">>, <<"reviewing", "selected">>,
                <<"reviewing", "rejected">>}

\* C17: every step that changes the persisted status of an application
\* takes it along an edge of pending -> reviewing -> {selected, rejected}
C17_StatusFollowsEdges ==
    [][\A id \in AppIds :
            applications'[id].status # applications[id].status =>
                <<applications[id].status, applications'[id].status>>
                    \in StatusEdges]_vars

----------------------------------------------------------------------------
(* C18 *)

\* the local list after the handler of run has completed with aiReview
Completed(apps, run, aiReview) ==
    ReplaceById(apps, ReviewedLocally(run.app, aiReview))

\* two View Analysis handlers in flight for different applications leave
\* the same local list whichever completes first, whatever they return
OrderIrrelevant ==
    \A r1, r2 \in BagToSet(ra.views) :
        r1.app.id # r2.app.id =>
            \A a1, a2 \in AIReviews :
                Completed(Completed(ra.apps, r1, a1), r2, a2)
                    = Completed(Completed(ra.apps, r2, a2), r1, a1)

\* a step that changes a local entry after the list was fetched completes
\* a View Analysis handler started for the application of that entry
OnlyOwnEntry ==
    (page = "ReviewApplications" /\ ~ra.fetching /\ ra.reviews = EmptyBag) =>
        /\ Len(ra'.apps) = Len(ra.apps)
        /\ \A k \in 1..Len(ra.apps) :
            ra'.apps[k] # ra.apps[k] =>
                \E run \in BagToSet(ra.views) :
                    /\ run.pc = "update"
                    /\ run.app.id = ra.apps[k].id
                    /\ ra'.views = ra.views (-) SetToBag({run})
                    /\ ra'.apps[k] = ReviewedLocally(run.app, run.review[1])

\* C18: View Analysis handlers in flight for different applications may
\* complete in any order: a completion changes only the local entry of its
\* own application, and the local list that results does not depend on
\* the order
C18_CompletionsKeyedById ==
    []OrderIrrelevant /\ [][OnlyOwnEntry]_vars

\* the handler of application 2 has completed while the one of application
\* 1, started before, is still waiting: entry 2 holds its review, entry 1
\* is as it was fetched
C18_Witness ==
    /\ page = "ReviewApplications"
    /\ Len(ra.apps) = 2
    /\ ra.apps[2].ai_review # Absent
    /\ ra.apps[1].ai_review = Absent
    /\ \E run \in BagToSet(ra.views) :
            run.app.id = ra.apps[1].id /\ run.pc = "update"

----------------------------------------------------------------------------
(* C19 *)

\* the View Analysis handlers in flight for the application
ViewsFor(id) ==
    BagCardinality([run \in {r \in BagToSet(ra.views) : r.app.id = id}
                        |-> ra.views[run]])

\* the requests in flight that end in a write of the derived fields of the
\* application: View Analysis handlers (ai_review, match_score) and the
\* handleParseResume run (parsed_resumes)
AnalysisRequests(id) ==
    ViewsFor(id) + (IF ar.parse.pc # "idle" /\ ar.parse.app = id
                    THEN 1 ELSE 0)

\* C19: in every reachable state at most one request in flight targets the
\* derived fields of any one application
C19_OneRequestPerApplication ==
    \A id \in AppIds : AnalysisRequests(id) <= 1

----------------------------------------------------------------------------
(* C20 *)

\* the steps of one handleParseResume run come in the order of its awaits:
\* matchResumeWithJD is called after parseResume has returned, and the
\* insert is sent after matchResumeWithJD has returned
RunInOrder ==
    /\ (ar'.parse.pc = "matchResumeWithJD" /\ ar.parse.pc # "matchResumeWithJD")
            => (ar.parse.pc = "parseResume" /\ ar'.parse.parsed # Absent
                /\ ar'.parse.app = ar.parse.app)
    /\ (ar'.parse.pc = "insert" /\ ar.parse.pc # "insert")
            => (ar.parse.pc = "matchResumeWithJD" /\ ar.parse.parsed # Absent
                /\ ar'.parse.match # Absent /\ ar'.parse.app = ar.parse.app)

\* a record is added to parsed_resumes only by the insert of a run, for the
\* application of the run and with a job loaded; a run that ends without
\* its insert succeeding adds none
RecordOnlyByInsert ==
    /\ parsedResumes' # parsedResumes =>
            /\ ar.parse.pc = "insert"
            /\ ar.job # NoJob
            /\ Len(parsedResumes') = Len(parsedResumes) + 1
            /\ SubSeq(parsedResumes', 1, Len(parsedResumes)) = parsedResumes
            /\ parsedResumes'[Len(parsedResumes')].application_id
                    = ar.parse.app
    /\ (ar.parse.pc \in {"parseResume", "matchResumeWithJD"}
            /\ ar'.parse.pc = "idle")
            => (parsedResumes' = parsedResumes
                /\ hrToast' = HrToast("error", ServiceError, ar.parse.app))

\* C20: a parsed_resumes record is inserted for an application only after
\* parseResume and then matchResumeWithJD have returned in the same
\* handleParseResume run; when either fails, or no job is loaded, none is
\* inserted
C20_RecordAfterBothReturn ==
    [][RunInOrder /\ RecordOnlyByInsert]_vars

\* a run has inserted the record of application 1 and has ended
C20_Witness ==
    /\ page = "ApplicationReview"
    /\ Len(parsedResumes) = 1
    /\ parsedResumes[1].application_id = 1
    /\ parsedResumes[1].parsed_data # Absent
    /\ ar.parse = ParseIdle
    /\ ar.processing = NoApp

----------------------------------------------------------------------------
(* C21 *)

\* a busy flag is set only while a request of its operation is pending:
\* processing (handleParseResume), updating (updateStatus), reviewing
\* (reviewSingleApplication, reviewAllApplications), loading of Login
\* (handleLogin), of CandidateDashboard (handleApply) and of JobDetails
\* (handleSubmit)
BusyOnlyWhilePending ==
    /\ ar.processing # NoApp => ar.parse.pc # "idle"
    /\ ins.updating => ins.update # Absent
    /\ ra.reviewing => ra.reviews # EmptyBag
    /\ login.loading => login.pc # "idle"
    /\ \A d \in Dash : dash[d].loading =>
            (dash[d].pc # "idle" \/ dash[d].fetching)
    /\ jd.loading => (jd.pc # "idle" \/ jd.fetching)

\* the step in which the request of an operation returns and the operation
\* ends leaves its busy flag idle
IdleWhenReturned ==
    /\ (ar.parse.pc # "idle" /\ ar'.parse.pc = "idle")
            => ar'.processing = NoApp
    /\ (ins.update # Absent /\ ins'.update = Absent) => ~ins'.updating
    /\ (\E run \in BagToSet(ra.reviews) :
            CopiesIn(run, ra'.reviews) < CopiesIn(run, ra.reviews)
            /\ \A other \in BagToSet(ra'.reviews) : other.id # run.id)
            => ~ra'.reviewing
    /\ (login.pc # "idle" /\ login'.pc = "idle") => ~login'.loading
    /\ \A d \in Dash :
            (dash[d].pc # "idle" /\ dash'[d].pc = "idle")
                => ~dash'[d].loading
    /\ (jd.pc # "idle" /\ jd'.pc = "idle") => ~jd'.loading

\* C21: no failure leaves a screen busy: when the request of an operation
\* has returned, with a failure or not, its busy flag is idle again, so a
\* flag is set only while a request of the operation is pending
C21_BusyFlagsReset ==
    []BusyOnlyWhilePending /\ [][IdleWhenReturned]_vars

\* parseResume or matchResumeWithJD has failed: the failure is notified,
\* processing is reset and Parse Resume & Match can be pressed again
C21_Witness ==
    /\ ArShown
    /\ hrToast = HrToast("error", ServiceError, 1)
    /\ ar.processing = NoApp
    /\ ar.parse = ParseIdle
    /\ ENABLED ArParseClick

----------------------------------------------------------------------------
(* C22 *)

\* the review is on the row of the application: ai_review, and match_score
\* when the review carries one
OnRow(id, aiReview) ==
    /\ applications'[id].ai_review = Some(aiReview)
    /\ aiReview.match_score # Absent
            => applications'[id].match_score = aiReview.match_score

\* a step that shows an analysis leaves it written on the row of its
\* application
WrittenWhenShown ==
    (ra'.selectedAnalysis # ra.selectedAnalysis
        /\ ra'.selectedAnalysis # Absent)
        => OnRow(ra'.selectedAnalysis[1].application.id,
                 ra'.selectedAnalysis[1].analysis)

\* a step that ends a View Analysis handler without the notification of
\* its success changes neither the local list nor selectedAnalysis nor the
\* table, and notifies the failure for the application of the handler
UnchangedWhenFailed ==
    \A run \in BagToSet(ra.views) :
        (/\ page' = "ReviewApplications"
         /\ ra'.views = ra.views (-) SetToBag({run})
         /\ hrToast' # HrToast("success", "Analysis complete", run.app.id))
            => /\ ra'.apps = ra.apps
               /\ ra'.selectedAnalysis = ra.selectedAnalysis
               /\ applications' = applications
               /\ hrToast' = HrToast("error",
                                     "Failed to analyze application",
                                     run.app.id)

\* C22: an AIReview the View Analysis handler has obtained is on the row of
\* its application (ai_review and match_score) when it is shown; when the
\* AI call or the write fails, the local list and selectedAnalysis are
\* left as they were and the failure is notified for that application
C22_WrittenBeforeShown ==
    [][WrittenWhenShown /\ UnchangedWhenFailed]_vars

\* an analysis is shown in the modal and is the ai_review of the row
C22_Witness ==
    /\ page = "ReviewApplications"
    /\ ra.selectedAnalysis # Absent
    /\ applications[ra.selectedAnalysis[1].application.id].ai_review
            = Some(ra.selectedAnalysis[1].analysis)
    /\ hrToast = HrToast("success", "Analysis complete",
                         ra.selectedAnalysis[1].application.id)

----------------------------------------------------------------------------
(* C23 *)

\* C23: while a reviewSingleApplication started by reviewAllApplications
\* is in flight, reviewing is true (Review and Review All Applications are
\* disabled)
C23_ReviewingDuringBatch ==
    (\E run \in BagToSet(ra.reviews) : run.batch) => ra.reviewing

----------------------------------------------------------------------------
(* C24 *)

\* the local entry and the row agree on status, ai_review and match_score
Agree(entry, row) ==
    /\ entry.status = row.status
    /\ entry.ai_review = row.ai_review
    /\ entry.match_score = row.match_score

\* C24: the step in which a View Analysis handler succeeds leaves the local
\* entry of its application in agreement with the row just written, on
\* status, ai_review and match_score
C24_LocalAgreesWithRow ==
    [][\A run \in BagToSet(ra.views) :
            (/\ run.pc = "update"
             /\ page' = "ReviewApplications"
             /\ ra'.views = ra.views (-) SetToBag({run})
             /\ hrToast' = HrToast("success", "Analysis complete",
                                   run.app.id))
                => \A k \in 1..Len(ra'.apps) :
                        ra'.apps[k].id = run.app.id
                            => Agree(ra'.apps[k], applications'[run.app.id])
      ]_vars

----------------------------------------------------------------------------
(* C25 *)

\* the rows of parsed_resumes of an application
ParsedRowsOf(id) ==
    SelectSeq(parsedResumes, LAMBDA row : row.application_id = id)

\* C25: an application has at most one parsed_resumes row, and once its row
\* has been inserted Parse Resume & Match is not offered for it any more,
\* whether or not the refresh started by the insert has returned
C25_OneRecordPerApplication ==
    \A id \in AppIds :
        /\ Len(ParsedRowsOf(id)) <= 1
        /\ (page = "ApplicationReview" /\ ParsedRowsOf(id) # <<>>)
            => \A app \in Entries(ar.apps) :
                    app.id = id => ~ArParseOffered(app)

----------------------------------------------------------------------------
(* C26 *)

\* every entry of the local list has the status of its row
LocalStatusCurrent ==
    \A app \in Entries(ar.apps) : app.status = applications[app.id].status

\* C26: on ApplicationReview, once the status updates and the refreshes
\* have all returned, in whatever order, the last of them without an
\* error, every local entry has the status of its row: the response of an
\* older refresh has not replaced the list of a newer one
C26_LocalStatusAfterRequests ==
    (ArShown /\ ArInFlight = 0 /\ hrToast[1] # "error")
        => LocalStatusCurrent

----------------------------------------------------------------------------
(* C27 *)

\* the statuses that the updates in flight write to an application
StatusWrites(id) ==
    {update.status : update \in
        {u \in BagToSet(ar.updates) : u.id = id}}
    \cup (IF ins.id = id /\ ins.update # Absent
          THEN {ins.update[1]} ELSE {})

\* the controls that set the status of an application can be pressed
StatusControlsAvailable(id) ==
    \/ \E app \in Entries(ar.apps) :
            app.id = id /\ ArControlsRendered(app)
    \/ ins.id = id /\ InsControlsRendered /\ ~ins.updating

\* C27: a 'selected' write and a 'rejected' write of one application are
\* never in flight together, and while a write of an application is in
\* flight neither of its controls can be pressed
C27_OneStatusWriteInFlight ==
    \A id \in AppIds :
        /\ ~({"selected", "rejected"} \subseteq StatusWrites(id))
        /\ StatusWrites(id) # {} => ~StatusControlsAvailable(id)

----------------------------------------------------------------------------
(* C28 *)

\* C28: once the analysis of the application shown has started, insights
\* holds the response texts of the lines of that stream and of no other:
\* text of the stream of an application shown before is not in front of it
C28_InsightsOfOneStream ==
    (page = "ApplicationInsights" /\ ins.analysis \in {"stream", "done"})
        => ins.insights = ConcatWellFormed(ins.sent)

----------------------------------------------------------------------------
(* C29 *)

\* C29: the text the analysis ends with is what the lines the endpoint
\* has sent give when each arrives whole, wherever the transport has cut
\* the byte stream
C29_TextIndependentOfChunks ==
    (page = "ApplicationInsights" /\ ins.analysis = "done")
        => ins.insights = LinesApplied(<<>>, ins.sent)

----------------------------------------------------------------------------
(* C30 *)

\* C30: the resume text of every application row is not blank, whichever
\* form has inserted the row
C30_NoBlankResume ==
    \A id \in AppIds : Trim(applications[id].text) # <<>>

====
